---- MODULE Spec2Model ----
(***************************************************************************)
(* A model of importee's dependency-extraction and rule-evaluation         *)
(* pipeline: module paths, the import resolver, import extraction, the     *)
(* on-disk extraction cache, the layered-order rule and file processing.   *)
(*                                                                         *)
(* Strings are sequences of characters.  A character is one of the         *)
(* punctuation characters "." and "/" or a letter; each letter of the      *)
(* alphabet below ("app", "api", ...) stands for one dot-free, slash-free  *)
(* character, so <<"app", ".", "api">> is the dotted name app.api.         *)
(***************************************************************************)
EXTENDS Integers, Sequences, FiniteSets, TLC

VARIABLES
    \* --- layered-order rule (rules/linear.rs)
    source_folder,   \* LinearOrderInFolder.source_folder
    order,           \* the configured order the rule was built from
    import,          \* the ImportLine handed to check_line (an Option)
    outcome,         \* what check_line did: "none", "pass", "fail", "panic"
    \* --- import resolver (imports/classification.rs)
    root_dir,        \* ImportResolver.root_dir, a path relative to the cwd
    root_module,     \* ImportResolver.root_module: Option<String>
    cache,           \* ImportResolver.cache: dotted string -> bool (partial)
    files,           \* the files that exist, as paths relative to the cwd
    resolved,        \* the last call, if resolve_import: the call and its result
    local,           \* the last call, if is_local_dotted: the call and its result
    \* --- file processing with the on-disk cache (file_processor.rs)
    content,         \* the content of the processed source file (a content id)
    entry,           \* the cache file of the processed module on disk (an Option)
    run,             \* the processing that has just happened (an Option)
    prev_run,        \* the last cache-enabled processing since which neither the
                     \* file nor its cache entry was changed from outside (an Option)
    \* --- further observations of the resolver and of import extraction
    classification,  \* the last call, if classify_module: the call and its result
    collected,       \* the last collect_imports_from_stmt call and what it pushed
    workers,         \* the is_local_dotted call each worker is in the middle of
    \* --- module paths (module_path.rs)
    mpath,           \* the ModulePath value the program holds
    text,            \* the dotted string the program holds
    mp_op,           \* the last ModulePath operation and its inputs (an Option)
    \* --- the walk of the source modules (walker.rs)
    source_modules,  \* ProjectConfig.source_modules
    run_config,      \* RunConfig, as far as the walk reads it: [no_cache]
    walk_pc,         \* where run_check_imports is: "modules", "cwd", "done"
    root_index,      \* how many source modules the loop has taken
    walked_any,      \* walked_any
    pending,         \* the directories and files reached and not yet handled
    handled,         \* what each process_file call so far was given and did
    cache_dir,       \* the cache files on disk: (cache root, module) -> entry
    result,          \* CheckResult.issues
    \* --- line numbers (imports/collection.rs)
    src_text,        \* the source text handed to build_line_offsets
    src_offset,      \* the byte offset handed to offset_to_line
    src_line         \* the line offset_to_line returned (an Option)

ruleVars == <<source_folder, order, import, outcome>>
resolverVars == <<root_dir, root_module, cache, files, resolved, local>>
procVars == <<content, entry, run, prev_run>>
pathVars == <<mpath, text, mp_op>>
walkVars == <<source_modules, run_config, walk_pc, root_index, walked_any,
              pending, handled, cache_dir, result>>
lineVars == <<src_text, src_offset, src_line>>
vars == <<source_folder, order, import, outcome, root_dir, root_module, cache,
          files, resolved, local, content, entry, run, prev_run,
          classification, collected, workers, mpath, text, mp_op,
          source_modules, run_config, walk_pc, root_index, walked_any,
          pending, handled, cache_dir, result, src_text, src_offset, src_line>>

\* Option<T>: None, or Some(x)
None == <<>>
Some(x) == <<x>>
IsSome(o) == o # <<>>
Unwrap(o) == o[1]

(***************************************************************************)
(* Strings                                                                 *)
(***************************************************************************)
DOT == "."
SLASH == "/"
Str(c) == <<c>>
PY == <<"py">>
INIT_PY == <<"__init__", ".", "py">>

RECURSIVE SplitAcc(_, _, _, _)
SplitAcc(s, sep, cur, acc) ==
    IF s = <<>> THEN Append(acc, cur)
    ELSE IF Head(s) = sep
         THEN SplitAcc(Tail(s), sep, <<>>, Append(acc, cur))
         ELSE SplitAcc(Tail(s), sep, Append(cur, Head(s)), acc)

\* str::split(sep): the parts between separators, empty parts included
Split(s, sep) == SplitAcc(s, sep, <<>>, <<>>)

NonEmptyParts(parts) == SelectSeq(parts, LAMBDA p : p # <<>>)

RECURSIVE Join(_, _)
\* [String]::join(sep)
Join(parts, sep) ==
    IF parts = <<>> THEN <<>>
    ELSE IF Len(parts) = 1 THEN parts[1]
    ELSE parts[1] \o <<sep>> \o Join(Tail(parts), sep)

\* str::replace(from, to) for single characters
Replace(s, from, to) == [i \in 1..Len(s) |-> IF s[i] = from THEN to ELSE s[i]]

\* str::starts_with
StrStartsWith(s, p) == Len(p) <= Len(s) /\ SubSeq(s, 1, Len(p)) = p

\* str::strip_prefix: the rest after p, or None
strip_prefix(s, p) ==
    IF StrStartsWith(s, p) THEN Some(SubSeq(s, Len(p) + 1, Len(s))) ELSE None

(***************************************************************************)
(* ModulePath (module_path.rs): a sequence of segments, each a string      *)
(***************************************************************************)
to_dotted(segments) == Join(segments, DOT)

\* from_dotted without the filter on empty parts
from_dotted_KeepEmpty(dotted) == Split(dotted, DOT)

from_dotted(dotted) == NonEmptyParts(Split(dotted, DOT))

starts_with(self, base) ==
    IF Len(base) > Len(self) THEN FALSE
    ELSE \A i \in 1..Len(base) : self[i] = base[i]

relative_from(self, base) ==
    IF ~starts_with(self, base) THEN None
    ELSE Some(SubSeq(self, Len(base) + 1, Len(self)))

\* PathBuf::push of each segment; a path is its sequence of components
to_dir_pathbuf(segments) == NonEmptyParts(segments)

append(self, segment) == Append(self, segment)

\* (leaf, parent), or None for the empty path
split_last(self) ==
    IF self = <<>> THEN None
    ELSE Some([leaf |-> self[Len(self)],
               parent |-> SubSeq(self, 1, Len(self) - 1)])

file_path(self) ==
    IF ~IsSome(split_last(self)) THEN <<>>
    ELSE Append(to_dir_pathbuf(Unwrap(split_last(self)).parent),
                Unwrap(split_last(self)).leaf \o <<DOT>> \o PY)

RECURSIVE CountLeading(_, _)
CountLeading(s, c) ==
    IF s # <<>> /\ Head(s) = c THEN 1 + CountLeading(Tail(s), c) ELSE 0

\* from_import with a climb that does not saturate: too many dots climb
\* nothing
from_import_NoSaturation(current, imp) ==
    LET dot_prefix == CountLeading(imp, DOT)
        remainder == SubSeq(imp, dot_prefix + 1, Len(imp))
        base_len == IF Len(current) >= dot_prefix
                    THEN Len(current) - dot_prefix ELSE Len(current)
    IN  IF dot_prefix = 0 THEN NonEmptyParts(Split(remainder, DOT))
        ELSE SubSeq(current, 1, base_len)
             \o (IF remainder # <<>> THEN NonEmptyParts(Split(remainder, DOT))
                 ELSE <<>>)

from_import(current, imp) ==
    LET dot_prefix == CountLeading(imp, DOT)
        remainder == SubSeq(imp, dot_prefix + 1, Len(imp))
        base_len == IF Len(current) >= dot_prefix
                    THEN Len(current) - dot_prefix ELSE 0
    IN  IF dot_prefix = 0 THEN from_dotted(remainder)
        ELSE SubSeq(current, 1, base_len)
             \o (IF remainder # <<>> THEN NonEmptyParts(Split(remainder, DOT))
                 ELSE <<>>)

(***************************************************************************)
(* std::path::Path::file_stem of the last component of a path              *)
(***************************************************************************)
LastIndexOf(s, c) ==
    IF \E i \in 1..Len(s) : s[i] = c
    THEN CHOOSE i \in 1..Len(s) : s[i] = c /\ \A j \in (i + 1)..Len(s) : s[j] # c
    ELSE 0

file_stem(path) ==
    IF path = <<>> THEN <<>>
    ELSE LET name == path[Len(path)]
             dot == LastIndexOf(name, DOT)
         IN  IF dot <= 1 THEN name ELSE SubSeq(name, 1, dot - 1)

(***************************************************************************)
(* The layered-order rule (rules/linear.rs)                                *)
(***************************************************************************)
\* LinearOrderInFolder::new: name -> index, a later duplicate overwrites
order_index(ord) ==
    [n \in {ord[i] : i \in 1..Len(ord)} |->
        (CHOOSE i \in 1..Len(ord) :
            ord[i] = n /\ \A j \in 1..Len(ord) : ord[j] = n => j <= i) - 1]

\* slice::windows(n), n > 0
Windows(s, n) == {SubSeq(s, i, i + n - 1) : i \in 1..(Len(s) - n + 1)}

\* the from-side name check_line looks up: the file stem of current_file
current_module_of(current_file) == file_stem(current_file)

\* the target-side name check_line looks up
target_head_of(folder, target_segments) ==
    IF Len(target_segments) >= Len(folder) + 1
       /\ SubSeq(target_segments, 1, Len(folder)) = folder
    THEN target_segments[Len(folder) + 1]
    ELSE IF target_segments # <<>> THEN target_segments[1] ELSE <<>>

\* RanksPass with a name that has no rank treated as rank 0
RanksPass_MissingIsZero(index, me, other) ==
    (IF other \in DOMAIN index THEN index[other] ELSE 0)
        <= (IF me \in DOMAIN index THEN index[me] ELSE 0)

\* the final match of check_line over the two lookups
RanksPass(index, me, other) ==
    IF me \in DOMAIN index /\ other \in DOMAIN index
    THEN index[other] <= index[me]
    ELSE TRUE

\* check_line(current_file, import): "pass", "fail", or "panic" when
\* windows() is called with size 0
check_line(folder, ord, current_file, target_module) ==
    IF Len(folder) = 0 THEN "panic"
    ELSE IF folder \notin Windows(current_file, Len(folder)) THEN "pass"
    ELSE IF current_module_of(current_file) = <<>> THEN "pass"
    ELSE IF target_head_of(folder, target_module) = <<>> THEN "pass"
    ELSE IF RanksPass(order_index(ord), current_module_of(current_file),
                      target_head_of(folder, target_module))
         THEN "pass" ELSE "fail"

(***************************************************************************)
(* The file system: `files` holds the path of every existing file, a path  *)
(* being the sequence of its components relative to the cwd.  A directory  *)
(* exists when a file lies under it.                                       *)
(***************************************************************************)
IsProperPrefix(p, q) == Len(p) < Len(q) /\ SubSeq(q, 1, Len(p)) = p

is_file(fs, path) == path \in fs

is_dir(fs, path) == \E f \in fs : IsProperPrefix(path, f)

\* Path::exists
exists(fs, path) == is_file(fs, path) \/ is_dir(fs, path)

\* the components of a relative path written with "/" separators
Components(rel) == NonEmptyParts(Split(rel, SLASH))

\* root.join(rel).exists(); joining an absolute rel leaves the tree under
\* the cwd, where this model holds no file
JoinExists(fs, root, rel) ==
    IF StrStartsWith(rel, <<SLASH>>) THEN FALSE
    ELSE exists(fs, root \o Components(rel))

\* <root>/<rel>.py exists, or <root>/<rel>/__init__.py does
FileOrPackageExists(fs, root, rel) ==
    \/ JoinExists(fs, root, rel \o <<DOT>> \o PY)
    \/ /\ ~StrStartsWith(rel, <<SLASH>>)
       /\ exists(fs, Append(root \o Components(rel), INIT_PY))

(***************************************************************************)
(* ImportResolver (imports/classification.rs).  self is the record         *)
(* [root_dir, root_module, cache]; a call that may fill the cache returns  *)
(* its value together with the cache it leaves.                            *)
(***************************************************************************)
NewResolver(dir, rootmod) ==
    [root_dir |-> dir, root_module |-> rootmod, cache |-> [d \in {} |-> TRUE]]

root_module_prefix(self) ==
    IF IsSome(self.root_module)
    THEN Some(Unwrap(self.root_module) \o <<DOT>>) ELSE None

\* module_exists_under_root that never strips the root module prefix
module_exists_under_root_NoStrip(self, fs, dotted) ==
    IF dotted = <<>> THEN FALSE
    ELSE FileOrPackageExists(fs, self.root_dir, Replace(dotted, DOT, SLASH))

module_exists_under_root(self, fs, dotted) ==
    IF dotted = <<>> THEN FALSE
    ELSE LET dotted_rel ==
                 IF IsSome(self.root_module)
                 THEN IF dotted = Unwrap(self.root_module) THEN <<>>
                      ELSE IF IsSome(strip_prefix(dotted, Unwrap(root_module_prefix(self))))
                           THEN Unwrap(strip_prefix(dotted, Unwrap(root_module_prefix(self))))
                           ELSE dotted
                 ELSE dotted
         IN  IF dotted_rel = <<>>
             THEN exists(fs, Append(self.root_dir, INIT_PY))
             ELSE FileOrPackageExists(fs, self.root_dir, Replace(dotted_rel, DOT, SLASH))

exists_in_root(self, fs, dotted) ==
    IF IsSome(self.root_module)
    THEN IF dotted = Unwrap(self.root_module)
         THEN exists(fs, Append(self.root_dir, INIT_PY))
         ELSE IF IsSome(strip_prefix(dotted, Unwrap(root_module_prefix(self))))
              THEN FileOrPackageExists(fs, self.root_dir,
                       Replace(Unwrap(strip_prefix(dotted, Unwrap(root_module_prefix(self)))),
                               DOT, SLASH))
              ELSE FALSE
    ELSE FileOrPackageExists(fs, self.root_dir, Replace(dotted, DOT, SLASH))

\* DashMap::insert
CacheInsert(c, key, value) ==
    [d \in DOMAIN c \cup {key} |-> IF d = key THEN value ELSE c[d]]

\* a miss computation that answers false once the cache holds anything
MissValue_SeesCache(self, fs, dotted) ==
    /\ DOMAIN self.cache = {}
    /\ \/ exists_in_root(self, fs, dotted)
       \/ module_exists_under_root(self, fs, dotted)

\* what is_local_dotted computes on a cache miss
MissValue(self, fs, dotted) ==
    \/ exists_in_root(self, fs, dotted)
    \/ module_exists_under_root(self, fs, dotted)

\* is_local_dotted with the namespace check alone
is_local_dotted_RootOnly(self, fs, dotted) ==
    IF dotted = <<>> THEN [value |-> FALSE, cache |-> self.cache]
    ELSE IF dotted \in DOMAIN self.cache
         THEN [value |-> self.cache[dotted], cache |-> self.cache]
         ELSE [value |-> exists_in_root(self, fs, dotted),
               cache |-> CacheInsert(self.cache, dotted,
                                     exists_in_root(self, fs, dotted))]

is_local_dotted(self, fs, dotted) ==
    IF dotted = <<>> THEN [value |-> FALSE, cache |-> self.cache]
    ELSE IF dotted \in DOMAIN self.cache
         THEN [value |-> self.cache[dotted], cache |-> self.cache]
         ELSE LET is_local == MissValue(self, fs, dotted)
              IN  [value |-> is_local,
                   cache |-> CacheInsert(self.cache, dotted, is_local)]

is_local_module(self, fs, module) == is_local_dotted(self, fs, to_dotted(module))

\* the existence test of one candidate of the prefix loop
CandidateExists(self, fs, candidate) ==
    IF IsSome(self.root_module)
    THEN is_local_dotted(self, fs, candidate)
    ELSE [value |-> module_exists_under_root(self, fs, candidate),
          cache |-> self.cache]

\* the candidate of iteration i: parent_segments[0..i] ++ from_dotted(import)
Candidate(parent_segments, imp, i) ==
    Join(SubSeq(parent_segments, 1, i) \o from_dotted(imp), DOT)

RECURSIVE PrefixLoopDown(_, _, _, _, _)
PrefixLoopDown(self, fs, parent_segments, imp, k) ==
    IF k < 1
    THEN [path |-> from_dotted(imp), cache |-> self.cache]
    ELSE LET t == CandidateExists(self, fs, Candidate(parent_segments, imp, k))
         IN  IF t.value
             THEN [path |-> from_dotted(Candidate(parent_segments, imp, k)),
                   cache |-> t.cache]
             ELSE PrefixLoopDown([self EXCEPT !.cache = t.cache], fs,
                                 parent_segments, imp, k - 1)

\* the prefix loop run from the closest ancestor outwards
PrefixLoop_InnermostFirst(self, fs, parent_segments, imp, i) ==
    PrefixLoopDown(self, fs, parent_segments, imp, Len(parent_segments))

RECURSIVE PrefixLoop(_, _, _, _, _)
\* for i in 1..=parent_segments.len(), from iteration i on
PrefixLoop(self, fs, parent_segments, imp, i) ==
    IF i > Len(parent_segments)
    THEN [path |-> from_dotted(imp), cache |-> self.cache]
    ELSE LET t == CandidateExists(self, fs, Candidate(parent_segments, imp, i))
         IN  IF t.value
             THEN [path |-> from_dotted(Candidate(parent_segments, imp, i)),
                   cache |-> t.cache]
             ELSE PrefixLoop([self EXCEPT !.cache = t.cache], fs,
                             parent_segments, imp, i + 1)

\* "If the import already starts with the root module"
IsRootQualified(self, imp) ==
    /\ IsSome(self.root_module)
    /\ \/ imp = Unwrap(self.root_module)
       \/ StrStartsWith(imp, Unwrap(root_module_prefix(self)))

ParentSegments(current_module) ==
    IF IsSome(split_last(current_module))
    THEN Unwrap(split_last(current_module)).parent ELSE <<>>

\* resolve_import without the "try as-is first" step
resolve_import_NoAsIs(self, fs, current_module, imp) ==
    IF StrStartsWith(imp, <<DOT>>)
    THEN [path |-> from_import(current_module, imp), cache |-> self.cache]
    ELSE IF IsRootQualified(self, imp)
    THEN [path |-> from_dotted(imp), cache |-> self.cache]
    ELSE PrefixLoop(self, fs, ParentSegments(current_module), imp, 1)

\* resolve_import with a dotted specifier sent through the absolute branches
resolve_import_RelativeViaLoop(self, fs, current_module, imp) ==
    IF IsRootQualified(self, imp)
    THEN [path |-> from_dotted(imp), cache |-> self.cache]
    ELSE IF module_exists_under_root(self, fs, imp)
    THEN [path |-> from_dotted(imp), cache |-> self.cache]
    ELSE PrefixLoop(self, fs, ParentSegments(current_module), imp, 1)

resolve_import(self, fs, current_module, imp) ==
    IF StrStartsWith(imp, <<DOT>>)
    THEN [path |-> from_import(current_module, imp), cache |-> self.cache]
    ELSE IF IsRootQualified(self, imp)
    THEN [path |-> from_dotted(imp), cache |-> self.cache]
    ELSE IF module_exists_under_root(self, fs, imp)
    THEN [path |-> from_dotted(imp), cache |-> self.cache]
    ELSE PrefixLoop(self, fs, ParentSegments(current_module), imp, 1)

(***************************************************************************)
(* Source files.  A content is a number; ContentText gives the bytes of    *)
(* the file as far as line numbers see them ("n" a newline, "c" any other  *)
(* byte) and ContentParse what the parser (rustpython_parser::parse) makes *)
(* of it: None for a syntax error, else the top-level statements with      *)
(* their kind and byte offset.                                             *)
(***************************************************************************)
NumContents == 5

Contents == 1..NumContents

ImportStmt(names, start) ==
    [kind |-> "Import", module |-> None, names |-> names, level |-> None,
     start |-> start]

ImportFromStmt(module, names, level, start) ==
    [kind |-> "ImportFrom", module |-> module, names |-> names,
     level |-> level, start |-> start]

ContentText(c) ==
    CASE c = 1 -> <<>>
      [] c = 2 -> <<"c">>
      [] c = 3 -> <<"c", "n", "c">>
      [] c = 4 -> <<"c", "c">>
      [] c = 5 -> <<"n", "c">>
      [] OTHER -> <<"c", "n">>

ContentParse(c) ==
    CASE c = 1 -> Some(<<>>)
           \* import app.repo
      [] c = 2 -> Some(<<ImportStmt(<<(<<"app", ".", "repo">>)>>, 0)>>)
           \* import os / from app import repo
      [] c = 3 -> Some(<<ImportStmt(<<(<<"os">>)>>, 0),
                         ImportFromStmt(Some(<<"app">>), <<(<<"repo">>)>>, Some(0), 2)>>)
           \* a syntax error
      [] c = 4 -> None
           \* a blank line / import repo
      [] c = 5 -> Some(<<ImportStmt(<<(<<"repo">>)>>, 1)>>)
           \* from . import repo
      [] OTHER -> Some(<<ImportFromStmt(None, <<(<<"repo">>)>>, Some(1), 0)>>)

(***************************************************************************)
(* Import extraction (imports/collection.rs)                               *)
(***************************************************************************)
RECURSIVE LineOffsetsFrom(_, _)
LineOffsetsFrom(source, i) ==
    IF i > Len(source) THEN <<>>
    ELSE (IF source[i] = "n" THEN <<i>> ELSE <<>>) \o LineOffsetsFrom(source, i + 1)

\* offsets[i] is the byte offset of line i+1; byte i (0-based) is source[i+1]
build_line_offsets(source) == <<0>> \o LineOffsetsFrom(source, 1)

\* offset_to_line that gives the 0-based index for an offset that starts a line
offset_to_line_OkIsIndex(offset, line_offsets) ==
    IF \E k \in 1..Len(line_offsets) : line_offsets[k] = offset
    THEN (CHOOSE k \in 1..Len(line_offsets) : line_offsets[k] = offset) - 1
    ELSE Cardinality({k \in 1..Len(line_offsets) : line_offsets[k] < offset})

\* slice::binary_search on the sorted table: Ok(index) or Err(insertion point)
offset_to_line(offset, line_offsets) ==
    IF \E k \in 1..Len(line_offsets) : line_offsets[k] = offset
    THEN (CHOOSE k \in 1..Len(line_offsets) : line_offsets[k] = offset)
    ELSE Cardinality({k \in 1..Len(line_offsets) : line_offsets[k] < offset})

\* a from-import that never prefers module.first
TrySubBase_AlwaysModule(module_name, try_sub, is_loc) ==
    [base |-> Some(module_name), cache |-> is_loc.cache]

\* a from-import keeps module.first when that resolves to a local module
TrySubBase(module_name, try_sub, is_loc) ==
    [base |-> IF is_loc.value THEN Some(try_sub) ELSE Some(module_name),
     cache |-> is_loc.cache]

TrySub(self, fs, module_name, try_sub, resolved_try) ==
    TrySubBase(module_name, try_sub,
               is_local_module([self EXCEPT !.cache = resolved_try.cache], fs,
                               resolved_try.path))

\* a base specifier that keeps the dots of the level before a module part
BaseSpec_LevelDots(stmt, current_module, self, fs) ==
    IF stmt.kind = "Import"
    THEN [base |-> IF stmt.names # <<>> THEN Some(stmt.names[1]) ELSE None,
          cache |-> self.cache]
    ELSE IF stmt.kind = "ImportFrom"
    THEN [base |-> IF stmt.names # <<>>
                   THEN Some([i \in 1..(IF IsSome(stmt.level)
                                        THEN Unwrap(stmt.level) ELSE 0) |-> DOT]
                             \o (IF IsSome(stmt.module)
                                 THEN Unwrap(stmt.module) \o <<DOT>> ELSE <<>>)
                             \o stmt.names[1])
                   ELSE None,
          cache |-> self.cache]
    ELSE [base |-> None, cache |-> self.cache]

\* the base specifier of a statement: Option<String>
BaseSpec(stmt, current_module, self, fs) ==
    IF stmt.kind = "Import"
    THEN [base |-> IF stmt.names # <<>> THEN Some(stmt.names[1]) ELSE None,
          cache |-> self.cache]
    ELSE IF stmt.kind = "ImportFrom"
    THEN LET module_name == IF IsSome(stmt.module) THEN Unwrap(stmt.module) ELSE <<>>
         IN  IF module_name # <<>>
             THEN IF stmt.names # <<>>
                  THEN TrySub(self, fs, module_name,
                              module_name \o <<DOT>> \o stmt.names[1],
                              resolve_import(self, fs, current_module,
                                             module_name \o <<DOT>> \o stmt.names[1]))
                  ELSE [base |-> Some(module_name), cache |-> self.cache]
             ELSE IF stmt.names # <<>>
                  THEN [base |-> Some((IF IsSome(stmt.level) THEN <<DOT>> ELSE <<>>)
                                      \o stmt.names[1]),
                        cache |-> self.cache]
                  ELSE [base |-> None, cache |-> self.cache]
    ELSE [base |-> None, cache |-> self.cache]

\* out.push(ImportLine { .. }) when the resolved module is local
PushIfLocal(current_module, line_no, res, loc) ==
    [out |-> IF loc.value
             THEN <<[from_module |-> current_module,
                     target_module |-> res.path,
                     import_line |-> line_no]>>
             ELSE <<>>,
     cache |-> loc.cache]

PushResolved(current_module, self, fs, line_no, res) ==
    PushIfLocal(current_module, line_no, res,
                is_local_module([self EXCEPT !.cache = res.cache], fs, res.path))

\* if let Some(base) = base_opt { .. }
PushBase(current_module, self, fs, line_no, b) ==
    IF IsSome(b.base)
    THEN PushResolved(current_module, self, fs, line_no,
                      resolve_import([self EXCEPT !.cache = b.cache], fs,
                                     current_module, Unwrap(b.base)))
    ELSE [out |-> <<>>, cache |-> b.cache]

\* the edges one statement adds to `out`, and the resolver cache it leaves
collect_imports_from_stmt(stmt, current_module, self, fs, line_offsets) ==
    PushBase(current_module, self, fs,
             IF stmt.kind \in {"Import", "ImportFrom"}
             THEN offset_to_line(stmt.start, line_offsets) ELSE 0,
             BaseSpec(stmt, current_module, self, fs))

RECURSIVE CollectBody(_, _, _, _, _, _, _)
RECURSIVE CollectNext(_, _, _, _, _, _, _, _)
\* for stmt in body.iter() { collect_imports_deep(...) }, from statement k on,
\* `out` holding the edges pushed so far
CollectBody(body, k, current_module, self, fs, line_offsets, out) ==
    IF k > Len(body) THEN [imports |-> out, cache |-> self.cache]
    ELSE CollectNext(body, k, current_module, self, fs, line_offsets, out,
                     collect_imports_from_stmt(body[k], current_module, self, fs,
                                               line_offsets))

CollectNext(body, k, current_module, self, fs, line_offsets, out, one) ==
    CollectBody(body, k + 1, current_module, [self EXCEPT !.cache = one.cache],
                fs, line_offsets, out \o one.out)

\* get_file_imports with the file content already read
get_file_imports(module, self, fs, file_content) ==
    IF ~IsSome(ContentParse(file_content))
    THEN [imports |-> <<>>, cache |-> self.cache]
    ELSE CollectBody(Unwrap(ContentParse(file_content)), 1, module, self, fs,
                     build_line_offsets(ContentText(file_content)), <<>>)

(***************************************************************************)
(* classify_module (imports/classification.rs): the verdict, the kind of   *)
(* reason given for an external module, and the resolver cache it leaves   *)
(***************************************************************************)
\* classify_module that takes any name already in the cache for local
classify_module_HitsAreLocal(self, fs, module) ==
    [is_local |-> \/ to_dotted(module) \in DOMAIN self.cache
                  \/ is_local_dotted(self, fs, to_dotted(module)).value,
     reason |-> IF \/ to_dotted(module) \in DOMAIN self.cache
                   \/ is_local_dotted(self, fs, to_dotted(module)).value
                THEN "" ELSE "path not found under cwd",
     cache |-> is_local_dotted(self, fs, to_dotted(module)).cache]

classify_module(self, fs, module) ==
    LET dotted == to_dotted(module)
        loc == is_local_dotted(self, fs, dotted)
    IN  [is_local |-> loc.value,
         reason |-> IF loc.value THEN ""
                    ELSE IF IsSome(self.root_module)
                         THEN IF ~(\/ dotted = Unwrap(self.root_module)
                                   \/ StrStartsWith(dotted, Unwrap(root_module_prefix(self))))
                              THEN "not in root module"
                              ELSE "path not found under root"
                         ELSE "path not found under cwd",
         cache |-> loc.cache]

(***************************************************************************)
(* The on-disk extraction cache (file_processor.rs).  The cache file of a  *)
(* module is None when missing, else what its JSON text holds: json = FALSE*)
(* when it does not deserialize to a CacheEntry; version is None when the  *)
(* object has no "version" field.  writer tells who wrote the file and is  *)
(* read by no operation.                                                   *)
(***************************************************************************)
cache_version_current == 2

\* blake3 of the content, taken to be collision-free
compute_hash_from_string(file_content) == <<"blake3", file_content>>

\* a reading of the version that takes a missing field for an old format
EntryVersion_MissingIsOld(raw) ==
    IF IsSome(raw.version) THEN Unwrap(raw.version) ELSE 0

\* serde: a missing "version" field deserializes to cache_version_current()
EntryVersion(raw) ==
    IF IsSome(raw.version) THEN Unwrap(raw.version) ELSE cache_version_current

RECURSIVE CachedLines(_, _, _)
\* the ImportLines rebuilt from the stored (target_dotted, line) pairs
CachedLines(imports, k, module_path) ==
    IF k > Len(imports) THEN <<>>
    ELSE <<[from_module |-> module_path,
            target_module |-> from_dotted(imports[k][1]),
            import_line |-> imports[k][2]]>>
         \o CachedLines(imports, k + 1, module_path)

\* try_load_cache with a version check that accepts everything
try_load_cache_NoVersionCheck(ent, module_path, hash) ==
    IF ~IsSome(ent) THEN None
    ELSE IF ~Unwrap(ent).json THEN None
    ELSE IF Unwrap(ent).hash # hash THEN None
    ELSE Some(CachedLines(Unwrap(ent).imports, 1, module_path))

\* try_load_cache without the hash comparison
try_load_cache_NoHashCheck(ent, module_path, hash) ==
    IF ~IsSome(ent) THEN None
    ELSE IF ~Unwrap(ent).json THEN None
    ELSE IF EntryVersion(Unwrap(ent)) < 2 THEN None
    ELSE Some(CachedLines(Unwrap(ent).imports, 1, module_path))

try_load_cache(ent, module_path, hash) ==
    IF ~IsSome(ent) THEN None
    ELSE IF ~Unwrap(ent).json THEN None
    ELSE IF EntryVersion(Unwrap(ent)) < 2 THEN None
    ELSE IF Unwrap(ent).hash # hash THEN None
    ELSE Some(CachedLines(Unwrap(ent).imports, 1, module_path))

\* flat: Vec<(String, i32)>
FlatImports(imports) ==
    [k \in 1..Len(imports) |->
        <<to_dotted(imports[k].target_module), imports[k].import_line>>]

\* the cache file save_cache leaves
save_cache(module_path, hash, imports) ==
    Some([json |-> TRUE, version |-> Some(cache_version_current), hash |-> hash,
          imports |-> FlatImports(imports), writer |-> "save_cache"])

RECURSIVE ClassifyAll(_, _, _, _)
\* for imp in imports.iter() { resolver.classify_module(...) }
ClassifyAll(imports, k, self, fs) ==
    IF k > Len(imports) THEN self.cache
    ELSE ClassifyAll(imports, k + 1,
                     [self EXCEPT !.cache =
                         classify_module(self, fs, imports[k].target_module).cache],
                     fs)

RECURSIVE CheckAll(_, _, _, _, _)
\* the issues of the edges from k on; one rule is configured
CheckAll(imports, k, folder, ord, module_path) ==
    IF k > Len(imports) THEN <<>>
    ELSE (IF check_line(folder, ord, file_path(module_path),
                        imports[k].target_module) = "fail"
          THEN <<[rule_name |-> "linear_order_in_folder",
                  path |-> file_path(module_path),
                  line |-> imports[k].import_line,
                  message |-> to_dotted(imports[k].target_module)]>>
          ELSE <<>>)
         \o CheckAll(imports, k + 1, folder, ord, module_path)

\* a call that returned before reading anything
Skipped(self, ent) ==
    [read |-> FALSE, tried |-> FALSE, loaded |-> None, parsed |-> FALSE,
     imports |-> <<>>, entry |-> ent, cache |-> self.cache, issues |-> <<>>]

\* the second half of process_file_with_rules: `imports` is filled, the
\* entry saved, the edges classified and checked
ProcessImports(module_path, no_cache, self, folder, ord, fs, ent, file_hash, loaded, parse, fresh, imports) ==
    [read |-> TRUE,
     tried |-> ~no_cache,
     loaded |-> loaded,
     parsed |-> parse,
     imports |-> imports,
     entry |-> IF parse /\ ~no_cache
               THEN save_cache(module_path, file_hash, imports) ELSE ent,
     cache |-> ClassifyAll(imports, 1, [self EXCEPT !.cache = fresh.cache], fs),
     issues |-> CheckAll(imports, 1, folder, ord, module_path)]

\* if imports.is_empty() { get_file_imports(..); save_cache(..) }
ProcessExtracted(module_path, no_cache, self, folder, ord, fs, ent, file_hash, loaded, cached, fresh) ==
    ProcessImports(module_path, no_cache, self, folder, ord, fs, ent, file_hash,
                   loaded, cached = <<>>, fresh, cached \o fresh.imports)

\* let mut imports = the cached edges, or Vec::new()
ProcessLoaded(module_path, no_cache, self, folder, ord, fs, file_content, ent, file_hash, loaded, cached) ==
    ProcessExtracted(module_path, no_cache, self, folder, ord, fs, ent,
                     file_hash, loaded, cached,
                     IF cached = <<>>
                     THEN get_file_imports(module_path, self, fs, file_content)
                     ELSE [imports |-> <<>>, cache |-> self.cache])

ProcessRead(module_path, no_cache, self, folder, ord, fs, file_content, ent, file_hash, loaded) ==
    ProcessLoaded(module_path, no_cache, self, folder, ord, fs, file_content,
                  ent, file_hash, loaded,
                  IF IsSome(loaded) THEN Unwrap(loaded) ELSE <<>>)

\* process_file_with_rules that looks the cache up whatever no_cache says
process_file_with_rules_AlwaysLoads(module_path, no_cache, self, folder, ord, fs, file_content, ent) ==
    IF is_dir(fs, to_dir_pathbuf(module_path)) THEN Skipped(self, ent)
    ELSE IF ~is_file(fs, file_path(module_path)) THEN Skipped(self, ent)
    ELSE ProcessRead(module_path, no_cache, self, folder, ord, fs, file_content,
                     ent, compute_hash_from_string(file_content),
                     try_load_cache(ent, module_path,
                                    compute_hash_from_string(file_content)))

\* process_file_with_rules: what the call did and what it leaves
process_file_with_rules(module_path, no_cache, self, folder, ord, fs, file_content, ent) ==
    IF is_dir(fs, to_dir_pathbuf(module_path)) THEN Skipped(self, ent)
    ELSE IF ~is_file(fs, file_path(module_path)) THEN Skipped(self, ent)
    ELSE ProcessRead(module_path, no_cache, self, folder, ord, fs, file_content,
                     ent, compute_hash_from_string(file_content),
                     IF no_cache THEN None
                     ELSE try_load_cache(ent, module_path,
                                         compute_hash_from_string(file_content)))

(***************************************************************************)
(* SpecRule: check_line applied to bounded rule configurations and edges   *)
(***************************************************************************)
Seg(c) == <<c>>
Mod1(a) == <<Seg(a)>>
Mod2(a, b) == <<Seg(a), Seg(b)>>
Mod3(a, b, c) == <<Seg(a), Seg(b), Seg(c)>>

RuleScopes == {<<>>, Mod1("app"), Mod2("app", "api")}

RuleOrders ==
    {<<Seg("api"), Seg("service"), Seg("repo")>>,
     <<Seg("repo"), Seg("api")>>,
     <<Seg("x"), Seg("y"), Seg("api")>>}

\* modules of files a walk can hand to file processing
RuleFromModules ==
    {Mod3("app", "api", "x"), Mod3("app", "repo", "x"), Mod2("app", "api"),
     Mod2("app", "repo"), Mod2("app", "service"), Mod3("lib", "app", "api"),
     Mod2("lib", "x"), Mod1("x")}

\* targets an edge can carry (extracted, or read back from a cache entry)
RuleTargetModules ==
    {Mod3("app", "api", "y"), Mod3("app", "repo", "y"), Mod2("app", "api"),
     Mod2("app", "repo"), Mod2("app", "service"), Mod1("app"),
     Mod2("repo", "y"), Mod1("api"), Mod2("lib", "x"), <<>>}

ResolverIdle ==
    /\ root_dir = <<>>
    /\ root_module = None
    /\ cache = [d \in {} |-> TRUE]
    /\ files = {}
    /\ resolved = None
    /\ local = None

ProcIdle ==
    /\ content = 0
    /\ entry = None
    /\ run = None
    /\ prev_run = None

PathIdle ==
    /\ mpath = <<>>
    /\ text = <<>>
    /\ mp_op = None

\* no walk under way
WalkIdle ==
    /\ source_modules = <<>>
    /\ run_config = [no_cache |-> FALSE]
    /\ walk_pc = "done"
    /\ root_index = 0
    /\ walked_any = FALSE
    /\ pending = {}
    /\ handled = {}
    /\ cache_dir = [k \in {} |-> None]
    /\ result = <<>>

\* no line lookup under way
LinesIdle ==
    /\ src_text = <<>>
    /\ src_offset = 0
    /\ src_line = None

\* no worker, no extraction and no classification under way
CallsIdle ==
    /\ classification = None
    /\ collected = None
    /\ workers = <<>>

RuleInit ==
    /\ source_folder \in RuleScopes
    /\ order \in RuleOrders
    /\ import = None
    /\ outcome = "none"
    /\ ResolverIdle
    /\ ProcIdle
    /\ WalkIdle
    /\ LinesIdle
    /\ CallsIdle
    /\ PathIdle

\* process_file_with_rules hands every edge of a file to every rule
CheckLine(from, target) ==
    /\ import' = Some([from_module |-> from, target_module |-> target])
    /\ outcome' = check_line(source_folder, order, file_path(from), target)
    /\ UNCHANGED <<source_folder, order>>
    /\ UNCHANGED resolverVars
    /\ UNCHANGED procVars
    /\ UNCHANGED walkVars
    /\ UNCHANGED lineVars
    /\ UNCHANGED <<classification, collected, workers>>
    /\ UNCHANGED pathVars

RuleNext ==
    \E from \in RuleFromModules, target \in RuleTargetModules :
        CheckLine(from, target)

SpecRule == RuleInit /\ [][RuleNext]_vars

\* The heads the specification of the rule speaks of: the first segment of a
\* module after stripping the scope, <<>> when there is none.
ScopedHead(scope, module) ==
    IF IsSome(relative_from(module, scope)) /\ Unwrap(relative_from(module, scope)) # <<>>
    THEN Unwrap(relative_from(module, scope))[1]
    ELSE <<>>

OrderNames(ord) == {ord[i] : i \in 1..Len(ord)}

\* 0-based position of a name in the order
Rank(ord, name) == (CHOOSE i \in 1..Len(ord) : ord[i] = name) - 1

InScope(scope, module) == IsSome(relative_from(module, scope))

\* C1: for an edge with both modules inside the (non-empty) scope and both
\* scoped heads in the order, check_line passes iff
\* rank(target_head) <= rank(from_head).
C1_LayeredOrderRanks ==
    (IsSome(import) /\ source_folder # <<>>) =>
        LET from == Unwrap(import).from_module
            target == Unwrap(import).target_module
            fh == ScopedHead(source_folder, from)
            th == ScopedHead(source_folder, target)
        IN  (/\ InScope(source_folder, from)
             /\ InScope(source_folder, target)
             /\ fh \in OrderNames(order)
             /\ th \in OrderNames(order))
            => ((outcome = "pass") <=> (Rank(order, th) <= Rank(order, fh)))

\* C2: an edge whose from-module or target-module lies outside the rule's
\* scope always passes.
C2_OutOfScopePasses ==
    (IsSome(import) /\ source_folder # <<>>) =>
        LET from == Unwrap(import).from_module
            target == Unwrap(import).target_module
        IN  (~InScope(source_folder, from) \/ ~InScope(source_folder, target))
            => outcome = "pass"

\* the names check_line looks up in the name->rank mapping for an edge
UsedFromHead(from) ==
    IF from = <<>> THEN <<>> ELSE from[Len(from)]

UsedTargetHead(scope, target) ==
    IF ScopedHead(scope, target) # <<>> THEN ScopedHead(scope, target)
    ELSE IF target = <<>> THEN <<>> ELSE target[1]

RuleIdle ==
    /\ source_folder = <<>>
    /\ order = <<>>
    /\ import = None
    /\ outcome = "none"

InitFile(dir) == Append(dir, INIT_PY)

ResolveFileUniverse ==
    {file_path(Mod1("util")),
     file_path(Mod2("app", "util")),
     file_path(Mod3("app", "api", "util")),
     InitFile(Mod1("app")),
     InitFile(Mod2("app", "util"))}

\* (root_dir, root_module) as run_check_imports builds them: the walk of the
\* cwd without a namespace, and the walk of source module app
ResolverConfigs ==
    {<<<<>>, None>>, <<Mod1("app"), Some(<<"app">>)>>}

ResolveCurrents == {Mod3("app", "api", "x"), Mod2("app", "x"), Mod1("x")}

ResolveSpecs ==
    {<<"util">>, <<"app", ".", "util">>, <<"api", ".", "util">>, <<"app">>,
     <<"os">>, <<".", "util">>, <<".", ".", "util">>,
     <<".", ".", ".", ".", "util">>}

LocalDotteds ==
    {<<"util">>, <<"app", ".", "util">>, <<"app", ".", "api", ".", "util">>,
     <<"app">>, <<>>}

Self == [root_dir |-> root_dir, root_module |-> root_module, cache |-> cache]

ResolveInit ==
    /\ files \in SUBSET ResolveFileUniverse
    /\ \E cfg \in ResolverConfigs : root_dir = cfg[1] /\ root_module = cfg[2]
    /\ cache = [d \in {} |-> TRUE]
    /\ resolved = None
    /\ local = None
    /\ RuleIdle
    /\ ProcIdle
    /\ WalkIdle
    /\ LinesIdle
    /\ CallsIdle
    /\ PathIdle

ResolveImport(current, imp) ==
    /\ resolved' = Some([current_module |-> current, import |-> imp,
                         path |-> resolve_import(Self, files, current, imp).path])
    /\ cache' = resolve_import(Self, files, current, imp).cache
    /\ local' = None
    /\ UNCHANGED <<root_dir, root_module, files>>
    /\ UNCHANGED ruleVars
    /\ UNCHANGED procVars
    /\ UNCHANGED walkVars
    /\ UNCHANGED lineVars
    /\ classification' = None
    /\ UNCHANGED <<collected, workers>>
    /\ UNCHANGED pathVars

IsLocalDotted(dotted) ==
    /\ local' = Some([dotted |-> dotted,
                      value |-> is_local_dotted(Self, files, dotted).value])
    /\ cache' = is_local_dotted(Self, files, dotted).cache
    /\ resolved' = None
    /\ UNCHANGED <<root_dir, root_module, files>>
    /\ UNCHANGED ruleVars
    /\ UNCHANGED procVars
    /\ UNCHANGED walkVars
    /\ UNCHANGED lineVars
    /\ classification' = None
    /\ UNCHANGED <<collected, workers>>
    /\ UNCHANGED pathVars

\* the modules handed to classify_module
ClassifyModules == {from_dotted(d) : d \in LocalDotteds}

Classified(module, c) ==
    /\ classification' = Some([module |-> module, is_local |-> c.is_local,
                                reason |-> c.reason])
    /\ cache' = c.cache

ClassifyModule(module) ==
    /\ Classified(module, classify_module(Self, files, module))
    /\ resolved' = None
    /\ local' = None
    /\ UNCHANGED <<root_dir, root_module, files>>
    /\ UNCHANGED ruleVars
    /\ UNCHANGED procVars
    /\ UNCHANGED walkVars
    /\ UNCHANGED lineVars
    /\ UNCHANGED <<collected, workers>>
    /\ UNCHANGED pathVars

ResolveNext ==
    \/ \E current \in ResolveCurrents, imp \in ResolveSpecs :
           ResolveImport(current, imp)
    \/ \E dotted \in LocalDotteds : IsLocalDotted(dotted)
    \/ \E module \in ClassifyModules : ClassifyModule(module)

SpecResolve == ResolveInit /\ [][ResolveNext]_vars

\* what the resolver's existence test of a candidate answers on the file
\* tree as it is, without the memo
TreeHas(dotted) ==
    IF IsSome(root_module)
    THEN dotted # <<>> /\ (\/ exists_in_root(Self, files, dotted)
                           \/ module_exists_under_root(Self, files, dotted))
    ELSE module_exists_under_root(Self, files, dotted)

\* the candidate of prefix length i, as segments
CandidateSegments(current, imp, i) ==
    SubSeq(SubSeq(current, 1, Len(current) - 1), 1, i) \o from_dotted(imp)

\* the prefix lengths whose candidate exists
ExistingPrefixes(current, imp) ==
    {i \in 1..(Len(current) - 1) :
        TreeHas(to_dotted(CandidateSegments(current, imp, i)))}

SetMin(S) == CHOOSE m \in S : \A n \in S : m <= n

IsRelativeSpec(imp) == imp # <<>> /\ imp[1] = DOT

\* a non-relative, not root-qualified spec that does not exist as-is
IsHeuristicCall(r) ==
    /\ ~IsRelativeSpec(r.import)
    /\ ~IsRootQualified(Self, r.import)
    /\ ~module_exists_under_root(Self, files, r.import)

\* C9: in the heuristic case, when some ancestor-prefix candidate exists the
\* result is the candidate with the smallest prefix length that exists
\* (the outermost prefix wins).
C9_OutermostPrefixWins ==
    IsSome(resolved) =>
        LET r == Unwrap(resolved)
            hits == ExistingPrefixes(r.current_module, r.import)
        IN  (IsHeuristicCall(r) /\ hits # {})
            => r.path = CandidateSegments(r.current_module, r.import, SetMin(hits))

\* C9 witness: two ancestor prefixes yield an existing module and the
\* outermost one was returned.
C9_Witness ==
    /\ IsSome(resolved)
    /\ IsHeuristicCall(Unwrap(resolved))
    /\ Cardinality(ExistingPrefixes(Unwrap(resolved).current_module,
                                    Unwrap(resolved).import)) >= 2
    /\ Unwrap(resolved).path = Mod2("app", "util")

\* C10: for a non-relative spec the result is from_dotted(spec) exactly when
\* (a) the spec is root-qualified, (b) it exists as-is under the root, or
\* (c) no ancestor-prefix candidate exists; otherwise it is a strictly
\* longer prefixed candidate that exists.
C10_FallbackCases ==
    (IsSome(resolved) /\ ~IsRelativeSpec(Unwrap(resolved).import)) =>
        LET r == Unwrap(resolved)
            hits == ExistingPrefixes(r.current_module, r.import)
        IN  IF \/ IsRootQualified(Self, r.import)
               \/ module_exists_under_root(Self, files, r.import)
               \/ hits = {}
            THEN r.path = from_dotted(r.import)
            ELSE /\ Len(r.path) > Len(from_dotted(r.import))
                 /\ \E i \in hits :
                        r.path = CandidateSegments(r.current_module, r.import, i)

\* C10 witness: a root-qualified spec with no file behind it came back
\* unchanged.
C10_Witness ==
    /\ IsSome(resolved)
    /\ Unwrap(resolved).import = <<"app", ".", "util">>
    /\ IsRootQualified(Self, Unwrap(resolved).import)
    /\ ~TreeHas(Unwrap(resolved).import)
    /\ Unwrap(resolved).path = Mod2("app", "util")

\* C11: a resolve_import call whose specifier starts with a dot returns
\* from_import(current, spec), whatever the file tree, the resolver
\* configuration and the cache hold, and leaves the cache as it was.
C11_RelativeDelegates ==
    [][(IsSome(resolved') /\ IsRelativeSpec(Unwrap(resolved').import))
         => /\ Unwrap(resolved').path =
                  from_import(Unwrap(resolved').current_module,
                              Unwrap(resolved').import)
            /\ cache' = cache]_vars

\* C11 witness: with entries in the cache, `..util` in app.api.x came back as
\* app.util.
C11_Witness ==
    /\ IsSome(resolved)
    /\ Unwrap(resolved).import = <<".", ".", "util">>
    /\ Unwrap(resolved).current_module = Mod3("app", "api", "x")
    /\ Unwrap(resolved).path = Mod2("app", "util")
    /\ DOMAIN cache # {}

(***************************************************************************)
(* Spec: the source module app is checked again and again while its tree,  *)
(* the processed file app/api.py and the file's cache entry change between *)
(* runs.  Every run builds its own resolver (walker.rs).                   *)
(***************************************************************************)
MaxVersion == 3

ProcessedModule == Mod2("app", "api")

\* the files that come and go beside the processed file
TreeFiles ==
    {file_path(Mod2("app", "repo")), InitFile(Mod1("app")),
     InitFile(Mod2("app", "api"))}

\* cache files this build did not write: damaged ones, and entries of other
\* builds of the tool
ForeignImports == {<<>>, <<(<<(<<"app", ".", "repo">>), 1>>)>>}

ForeignEntries ==
    {[json |-> FALSE, version |-> None, hash |-> <<>>, imports |-> <<>>,
      writer |-> "other"]}
    \cup {[json |-> TRUE, version |-> v, hash |-> compute_hash_from_string(c),
           imports |-> im, writer |-> "other"] :
            v \in {None} \cup {Some(n) : n \in 0..MaxVersion},
            c \in Contents, im \in ForeignImports}

Init ==
    /\ source_folder = Mod1("app")
    /\ order = <<Seg("api"), Seg("repo")>>
    /\ import = None
    /\ outcome = "none"
    /\ root_dir = Mod1("app")
    /\ root_module = Some(<<"app">>)
    /\ cache = [d \in {} |-> TRUE]
    /\ files \in {{file_path(ProcessedModule)} \cup t : t \in SUBSET TreeFiles}
    /\ resolved = None
    /\ local = None
    /\ content \in Contents
    /\ entry = None
    /\ run = None
    /\ prev_run = None
    /\ CallsIdle
    /\ PathIdle
    /\ WalkIdle
    /\ LinesIdle

\* what a run that returned r leaves
Ran(no_cache, r) ==
    /\ run' = Some([no_cache |-> no_cache, entry_before |-> entry,
                    prev |-> prev_run, read |-> r.read, tried |-> r.tried,
                    loaded |-> r.loaded, parsed |-> r.parsed,
                    imports |-> r.imports, issues |-> r.issues])
    /\ entry' = r.entry
    /\ cache' = r.cache
    /\ prev_run' = IF r.read /\ ~no_cache
                   THEN Some([imports |-> r.imports]) ELSE prev_run

\* one run over the processed file, with or without --no-cache
Process(no_cache) ==
    /\ Ran(no_cache,
           process_file_with_rules(ProcessedModule, no_cache,
                                   NewResolver(root_dir, root_module),
                                   source_folder, order, files, content, entry))
    /\ UNCHANGED <<source_folder, order, import, outcome, root_dir,
                   root_module, files, resolved, local, content>>
    /\ UNCHANGED <<classification, collected, workers>>
    /\ UNCHANGED pathVars
    /\ UNCHANGED walkVars
    /\ UNCHANGED lineVars

\* the processed file is rewritten
EditFile(c) ==
    /\ c # content
    /\ content' = c
    /\ run' = None
    /\ prev_run' = None
    /\ UNCHANGED <<entry, files, root_dir, root_module, cache, resolved, local>>
    /\ UNCHANGED ruleVars
    /\ UNCHANGED <<classification, collected, workers>>
    /\ UNCHANGED pathVars
    /\ UNCHANGED walkVars
    /\ UNCHANGED lineVars

\* another file of the tree is created
CreateFile(f) ==
    /\ f \notin files
    /\ files' = files \cup {f}
    /\ run' = None
    /\ UNCHANGED <<content, entry, prev_run, root_dir, root_module, cache,
                   resolved, local>>
    /\ UNCHANGED ruleVars
    /\ UNCHANGED <<classification, collected, workers>>
    /\ UNCHANGED pathVars
    /\ UNCHANGED walkVars
    /\ UNCHANGED lineVars

\* another file of the tree is deleted
DeleteFile(f) ==
    /\ f \in files
    /\ files' = files \ {f}
    /\ run' = None
    /\ UNCHANGED <<content, entry, prev_run, root_dir, root_module, cache,
                   resolved, local>>
    /\ UNCHANGED ruleVars
    /\ UNCHANGED <<classification, collected, workers>>
    /\ UNCHANGED pathVars
    /\ UNCHANGED walkVars
    /\ UNCHANGED lineVars

\* the cache file is replaced by one this build did not write
ReplaceEntry(e) ==
    /\ entry # Some(e)
    /\ entry' = Some(e)
    /\ run' = None
    /\ prev_run' = None
    /\ UNCHANGED <<content, files, root_dir, root_module, cache, resolved, local>>
    /\ UNCHANGED ruleVars
    /\ UNCHANGED <<classification, collected, workers>>
    /\ UNCHANGED pathVars
    /\ UNCHANGED walkVars
    /\ UNCHANGED lineVars

\* the cache file is removed
RemoveEntry ==
    /\ IsSome(entry)
    /\ entry' = None
    /\ run' = None
    /\ prev_run' = None
    /\ UNCHANGED <<content, files, root_dir, root_module, cache, resolved, local>>
    /\ UNCHANGED ruleVars
    /\ UNCHANGED <<classification, collected, workers>>
    /\ UNCHANGED pathVars
    /\ UNCHANGED walkVars
    /\ UNCHANGED lineVars

Next ==
    \/ \E no_cache \in BOOLEAN : Process(no_cache)
    \/ \E c \in Contents : EditFile(c)
    \/ \E f \in TreeFiles : CreateFile(f)
    \/ \E f \in TreeFiles : DeleteFile(f)
    \/ \E e \in ForeignEntries : ReplaceEntry(e)
    \/ RemoveEntry

Spec == Init /\ [][Next]_vars

(***************************************************************************)
(* Claims about the extraction cache, under Spec                           *)
(***************************************************************************)
CurrentHash == compute_hash_from_string(content)

\* the edges an extraction of the processed file gives on the present tree
FreshImports ==
    get_file_imports(ProcessedModule, NewResolver(root_dir, root_module),
                     files, content).imports

\* the issues of a run with caching disabled on the present state
UncachedIssues ==
    process_file_with_rules(ProcessedModule, TRUE,
                            NewResolver(root_dir, root_module),
                            source_folder, order, files, content, entry).issues

IssueSet(issues) == {issues[k] : k \in 1..Len(issues)}

\* a caching run that read the processed file has just ended
CachingRun == IsSome(run) /\ Unwrap(run).tried /\ Unwrap(run).read

\* C4: with caching enabled, a second processing of the file with its content
\* unchanged since the first performs no parse or extraction and yields the
\* edge list of the first, whatever that list is (the empty list included).
C4_UnchangedFileNoParse ==
    (CachingRun /\ IsSome(Unwrap(run).prev))
        => /\ ~Unwrap(run).parsed
           /\ Unwrap(run).imports = Unwrap(Unwrap(run).prev).imports

\* the stored entry a run found was made for another content than the
\* file's present one
EntryOfOtherContent(r) ==
    /\ IsSome(r.entry_before)
    /\ Unwrap(r.entry_before).json
    /\ Unwrap(r.entry_before).hash # CurrentHash

C6_CachingIsOnlyAnOptimization ==
    (/\ CachingRun
     /\ \/ ~IsSome(Unwrap(run).entry_before)
        \/ Unwrap(Unwrap(run).entry_before).writer = "save_cache")
        => IssueSet(Unwrap(run).issues) = IssueSet(UncachedIssues)

\* the entry try_load_cache accepts for a hash
ValidEntry(ent, hash) ==
    /\ IsSome(ent)
    /\ Unwrap(ent).json
    /\ EntryVersion(Unwrap(ent)) >= 2
    /\ Unwrap(ent).hash = hash

\* C7: try_load_cache returns Some(edges) exactly when a stored entry exists,
\* deserializes, has a version >= 2 and stores the given hash; otherwise it
\* returns None; the edges returned are the stored ones, each with
\* from_module equal to the requested module.
C7_TryLoadSomeIffValid ==
    CachingRun
        => LET r == Unwrap(run)
           IN  /\ IsSome(r.loaded) <=> ValidEntry(r.entry_before, CurrentHash)
               /\ ~ValidEntry(r.entry_before, CurrentHash) => r.loaded = None
               /\ IsSome(r.loaded) =>
                    /\ Len(Unwrap(r.loaded)) = Len(Unwrap(r.entry_before).imports)
                    /\ \A k \in 1..Len(Unwrap(r.loaded)) :
                          Unwrap(r.loaded)[k].from_module = ProcessedModule

C7_Witness ==
    /\ CachingRun
    /\ IsSome(Unwrap(run).loaded)
    /\ Unwrap(Unwrap(run).loaded) # <<>>
    /\ Unwrap(Unwrap(run).entry_before).version = Some(cache_version_current)

\* a run used the stored entry it found
EntryUsed(r) == IsSome(r.loaded)

\* C8 as stated: a stored entry is used only if its version field equals 2
\* and its hash is the hash of the present content; an entry with any other
\* version, or with no version field, is treated as absent.
C8_UsedOnlyIfVersionIsCurrent ==
    CachingRun
        => LET r == Unwrap(run)
           IN  EntryUsed(r)
                 => /\ Unwrap(r.entry_before).version = Some(cache_version_current)
                    /\ Unwrap(r.entry_before).hash = CurrentHash

\* C8 amended: a stored entry is used only if its version is at least 2, an
\* entry with no version field reading as version 2, and its hash is the hash
\* of the present content; only an entry whose version field is below 2 is
\* treated as absent on account of its version.
C8_UsedOnlyIfVersionAtLeastCurrent ==
    CachingRun
        => LET r == Unwrap(run)
               field == Unwrap(r.entry_before).version
           IN  /\ EntryUsed(r)
                    => /\ field = None \/ Unwrap(field) >= 2
                       /\ Unwrap(r.entry_before).hash = CurrentHash
               /\ (/\ IsSome(r.entry_before)
                   /\ Unwrap(r.entry_before).json
                   /\ Unwrap(r.entry_before).hash = CurrentHash
                   /\ field = None \/ Unwrap(field) >= 2)
                    => EntryUsed(r)
               /\ ~EntryUsed(r)
                    => /\ r.parsed
                       /\ r.imports = FreshImports
                       /\ entry = save_cache(ProcessedModule, CurrentHash, FreshImports)

C8_Witness ==
    /\ CachingRun
    /\ EntryUsed(Unwrap(run))
    /\ Unwrap(Unwrap(run).entry_before).version
          \in {None, Some(cache_version_current + 1)}
    /\ ~Unwrap(run).parsed

(***************************************************************************)
(* SpecPath: the operations that make ModulePath values, applied again and *)
(* again to the value at hand with inputs from bounded sets.  mp_op records*)
(* the last operation: its name, its string or segment-list input, and the *)
(* ModulePath it was applied to.                                           *)
(***************************************************************************)
MaxSegments == 3

\* std::path::Path::extension of a file name
extension(name) ==
    IF LastIndexOf(name, DOT) <= 1 THEN None
    ELSE Some(SubSeq(name, LastIndexOf(name, DOT) + 1, Len(name)))

\* import specifiers and dotted names handed to from_dotted and from_import
PathStrings ==
    {<<>>, <<"d">>, <<"foo", ".", "bar">>, <<"foo", ".", "nothing">>,
     <<".", "other">>, <<"a", ".", "b", ".", "c">>, <<".", ".", "d">>,
     <<".">>, <<".", ".">>, <<".", ".", ".", ".", "d">>,
     <<"a", ".", ".", "b">>, <<".", "a", ".">>}

\* Vec<String> values handed to ModulePath::new and read by the deserializer
SegmentLists ==
    {<<>>, <<(<<"a">>)>>, <<(<<"a">>), (<<"b">>)>>, <<(<<>>), (<<"a">>)>>,
     <<(<<"a", ".", "b">>)>>}

\* bases handed to relative_from
PathBases == {<<>>, <<(<<"foo">>)>>, <<(<<"a">>), (<<"b">>)>>, <<(<<"b">>)>>}

\* names of directory entries the walker meets
DirNames == {<<"b">>, <<"a", ".", "b">>, <<"__pycache__">>}

FileNames == {<<"c", ".", "py">>, <<"a", ".", "b", ".", "py">>, <<"c", ".", "pyi">>}

PathOp(op, str, segs) ==
    Some([op |-> op, str |-> str, segs |-> segs, before |-> mpath])

PathInit ==
    /\ mpath = <<>>
    /\ text = <<>>
    /\ mp_op = None
    /\ RuleIdle
    /\ ResolverIdle
    /\ ProcIdle
    /\ WalkIdle
    /\ LinesIdle
    /\ CallsIdle

\* the variables no ModulePath operation touches
PathFrame ==
    /\ UNCHANGED ruleVars
    /\ UNCHANGED resolverVars
    /\ UNCHANGED procVars
    /\ UNCHANGED walkVars
    /\ UNCHANGED lineVars
    /\ UNCHANGED <<classification, collected, workers>>

\* ModulePath::new(tokens) on configured tokens
New(segments) ==
    /\ mpath' = segments
    /\ text' = <<>>
    /\ mp_op' = PathOp("new", <<>>, segments)
    /\ PathFrame

\* to_dotted / Serialize
ToDotted ==
    /\ text' = to_dotted(mpath)
    /\ mp_op' = PathOp("to_dotted", <<>>, <<>>)
    /\ UNCHANGED mpath
    /\ PathFrame

FromDotted(s) ==
    /\ mpath' = from_dotted(s)
    /\ text' = <<>>
    /\ mp_op' = PathOp("from_dotted", s, <<>>)
    /\ PathFrame

\* deserialization from a string: the dotted string at hand is read back
VisitStr ==
    /\ mpath' = from_dotted(text)
    /\ text' = <<>>
    /\ mp_op' = PathOp("visit_str", text, <<>>)
    /\ PathFrame

FromImport(s) ==
    /\ Len(from_import(mpath, s)) <= MaxSegments
    /\ mpath' = from_import(mpath, s)
    /\ text' = <<>>
    /\ mp_op' = PathOp("from_import", s, <<>>)
    /\ PathFrame

RelativeFrom(base) ==
    /\ mpath' = IF IsSome(relative_from(mpath, base))
                THEN Unwrap(relative_from(mpath, base)) ELSE mpath
    /\ text' = <<>>
    /\ mp_op' = PathOp("relative_from", <<>>, base)
    /\ PathFrame

SplitLast ==
    /\ mpath' = IF IsSome(split_last(mpath))
                THEN Unwrap(split_last(mpath)).parent ELSE mpath
    /\ text' = <<>>
    /\ mp_op' = PathOp("split_last", <<>>, <<>>)
    /\ PathFrame

\* deserialization from an array: empty elements are skipped
VisitSeq(elems) ==
    /\ mpath' = SelectSeq(elems, LAMBDA e : e # <<>>)
    /\ text' = <<>>
    /\ mp_op' = PathOp("visit_seq", <<>>, elems)
    /\ PathFrame

\* deserialization from an object with a "segments" member
VisitMap(segments) ==
    /\ mpath' = segments
    /\ text' = <<>>
    /\ mp_op' = PathOp("visit_map", <<>>, segments)
    /\ PathFrame

\* walk_dirs descends into a directory
WalkDir(file_name) ==
    /\ file_name # <<"__pycache__">>
    /\ Len(mpath) < MaxSegments
    /\ mpath' = append(mpath, file_name)
    /\ text' = <<>>
    /\ mp_op' = PathOp("walk_dir", file_name, <<>>)
    /\ PathFrame

\* walk_dirs meets a .py file
WalkFile(file_name) ==
    /\ extension(file_name) = Some(PY)
    /\ Len(mpath) < MaxSegments
    /\ mpath' = append(mpath, file_stem(<<file_name>>))
    /\ text' = <<>>
    /\ mp_op' = PathOp("walk_file", file_name, <<>>)
    /\ PathFrame

PathNext ==
    \/ \E segments \in SegmentLists : New(segments)
    \/ ToDotted
    \/ \E s \in PathStrings : FromDotted(s)
    \/ VisitStr
    \/ \E s \in PathStrings : FromImport(s)
    \/ \E base \in PathBases : RelativeFrom(base)
    \/ SplitLast
    \/ \E elems \in SegmentLists : VisitSeq(elems)
    \/ \E segments \in SegmentLists : VisitMap(segments)
    \/ \E file_name \in DirNames : WalkDir(file_name)
    \/ \E file_name \in FileNames : WalkFile(file_name)

SpecPath == PathInit /\ [][PathNext]_vars

\* the number of leading dots of a string
LeadingDots(str) ==
    CHOOSE k \in 0..Len(str) :
        /\ \A i \in 1..k : str[i] = DOT
        /\ k = Len(str) \/ str[k + 1] # DOT

\* the dot-separated parts of a string that are not empty, in order
RECURSIVE DotParts(_)
DotParts(str) ==
    IF str = <<>> THEN <<>>
    ELSE IF Head(str) = DOT THEN DotParts(Tail(str))
    ELSE LET n == CHOOSE m \in 1..Len(str) :
                     /\ \A i \in 1..m : str[i] # DOT
                     /\ m = Len(str) \/ str[m + 1] = DOT
         IN  <<SubSeq(str, 1, n)>> \o DotParts(SubSeq(str, n + 1, Len(str)))

MinOf(a, b) == IF a <= b THEN a ELSE b

\* C12: from_import(current, spec) with k leading dots and remainder r is
\* the non-empty parts of r when k = 0, and for k > 0 is current without its
\* last min(k, len(current)) segments followed by the non-empty parts of r.
C12_FromImport ==
    (IsSome(mp_op) /\ Unwrap(mp_op).op = "from_import") =>
        LET current == Unwrap(mp_op).before
            spec == Unwrap(mp_op).str
            k == LeadingDots(spec)
            r == SubSeq(spec, k + 1, Len(spec))
        IN  IF k = 0 THEN mpath = DotParts(r)
            ELSE mpath = SubSeq(current, 1, Len(current) - MinOf(k, Len(current)))
                         \o DotParts(r)

\* C12 witness: more dots than the current module has segments
C12_Witness ==
    /\ IsSome(mp_op)
    /\ Unwrap(mp_op).op = "from_import"
    /\ Unwrap(mp_op).before = <<(<<"foo">>), (<<"bar">>)>>
    /\ Unwrap(mp_op).str = <<".", ".", ".", ".", "d">>
    /\ mpath = <<(<<"d">>)>>

\* a segment that is not empty and holds no dot
GoodSegment(seg) == seg # <<>> /\ \A i \in 1..Len(seg) : seg[i] # DOT

GoodSegments(segments) == \A i \in 1..Len(segments) : GoodSegment(segments[i])

\* C13: from_dotted gives back the segments to_dotted was applied to when
\* they are non-empty and dot-free, and for any string gives only non-empty
\* dot-free segments, namely the string's non-empty dot-separated parts.
C13_DottedRoundTrip ==
    (IsSome(mp_op) /\ Unwrap(mp_op).op \in {"from_dotted", "visit_str"}) =>
        /\ (/\ Unwrap(mp_op).str = to_dotted(Unwrap(mp_op).before)
            /\ GoodSegments(Unwrap(mp_op).before))
              => mpath = Unwrap(mp_op).before
        /\ GoodSegments(mpath)
        /\ mpath = DotParts(Unwrap(mp_op).str)

\* C13 witness: a three-segment path was written as a dotted string and
\* read back
C13_Witness ==
    /\ IsSome(mp_op)
    /\ Unwrap(mp_op).op = "visit_str"
    /\ Unwrap(mp_op).before = <<(<<"a">>), (<<"b">>), (<<"c">>)>>
    /\ Unwrap(mp_op).str = <<"a", ".", "b", ".", "c">>
    /\ mpath = Unwrap(mp_op).before

\* C14: no segment of a ModulePath the program holds is empty or holds a dot.
C14_SegmentsWellFormed == GoodSegments(mpath)

(***************************************************************************)
(* Further claims about the resolver, under SpecResolve                    *)
(***************************************************************************)
\* <root_dir>/<segments as a path>.py exists, or the package marker
\* <root_dir>/<segments as a path>/__init__.py does
ProjectRelativeExists(dotted) ==
    LET segs == DotParts(dotted)
    IN  /\ segs # <<>>
        /\ \/ exists(files, root_dir \o SubSeq(segs, 1, Len(segs) - 1)
                            \o <<segs[Len(segs)] \o <<DOT>> \o PY>>)
           \/ exists(files, root_dir \o segs \o <<INIT_PY>>)

\* C15: is_local_dotted is false for the empty string; on a cache miss for a
\* non-empty name it is true exactly when exists_in_root or
\* module_exists_under_root is; with a root module configured, a name that
\* is neither the root module nor prefixed by it is rejected by
\* exists_in_root and looked up as a project-relative name by
\* module_exists_under_root.
C15_LocalIffEitherCheck ==
    [][IsSome(local') =>
         LET d == Unwrap(local').dotted
             v == Unwrap(local').value
         IN  /\ d = <<>> => v = FALSE
             /\ (d # <<>> /\ d \notin DOMAIN cache) =>
                  /\ v = (\/ exists_in_root(Self, files, d)
                          \/ module_exists_under_root(Self, files, d))
                  /\ (IsSome(root_module) /\ ~IsRootQualified(Self, d)) =>
                       /\ ~exists_in_root(Self, files, d)
                       /\ module_exists_under_root(Self, files, d)
                            = ProjectRelativeExists(d)]_vars

\* C15 witness: under root module app the unprefixed name util was found
\* local on its first lookup, through the project-relative check.
C15_Witness ==
    /\ IsSome(local)
    /\ root_module = Some(<<"app">>)
    /\ Unwrap(local).dotted = <<"util">>
    /\ Unwrap(local).value
    /\ ~exists_in_root(Self, files, <<"util">>)
    /\ DOMAIN cache = {<<"util">>}

\* what classify_module answers on a resolver that has served no call yet
FirstClassification(module) ==
    classify_module(NewResolver(root_dir, root_module), files, module)

\* C17: classify_module gives (true, "") for a local module and (false,
\* reason) with a non-empty reason for any other; its answer for a module is
\* the one a resolver gives on its first call, whatever calls the resolver
\* has served since, so two calls with the same module agree.
C17_ClassificationDeterministic ==
    IsSome(classification) =>
        LET c == Unwrap(classification)
        IN  /\ c.is_local = TreeHas(to_dotted(c.module))
            /\ c.is_local => c.reason = ""
            /\ ~c.is_local => c.reason # ""
            /\ c.is_local = FirstClassification(c.module).is_local
            /\ c.reason = FirstClassification(c.module).reason

\* C17 witness: app.util was classified external, with a reason, by a
\* resolver whose cache already held other names
C17_Witness ==
    /\ IsSome(classification)
    /\ Unwrap(classification).module = Mod2("app", "util")
    /\ ~Unwrap(classification).is_local
    /\ Unwrap(classification).reason = "path not found under root"
    /\ Cardinality(DOMAIN cache) >= 3

(***************************************************************************)
(* SpecWorkers: several workers share one resolver over a fixed file tree  *)
(* and call is_local_dotted; a call is the DashMap get, the existence      *)
(* checks, and the DashMap insert, each atomic, interleaved at will.       *)
(***************************************************************************)
Workers == {"w1", "w2"}

WorkerFiles == {file_path(Mod1("util")), file_path(Mod2("app", "util"))}

WorkerKeys == {<<"util">>, <<"app", ".", "util">>, <<>>}

WorkerIdle(ret) == [pc |-> "idle", key |-> <<>>, value |-> FALSE, ret |-> ret]

WorkersInit ==
    /\ files \in SUBSET WorkerFiles
    /\ \E cfg \in ResolverConfigs : root_dir = cfg[1] /\ root_module = cfg[2]
    /\ cache = [d \in {} |-> TRUE]
    /\ resolved = None
    /\ local = None
    /\ classification = None
    /\ collected = None
    /\ workers = [w \in Workers |-> WorkerIdle(None)]
    /\ RuleIdle
    /\ ProcIdle
    /\ WalkIdle
    /\ LinesIdle
    /\ PathIdle

WorkerFrame ==
    /\ UNCHANGED <<root_dir, root_module, files, resolved, local,
                   classification, collected>>
    /\ UNCHANGED ruleVars
    /\ UNCHANGED procVars
    /\ UNCHANGED walkVars
    /\ UNCHANGED lineVars
    /\ UNCHANGED pathVars

\* a worker enters is_local_dotted; the empty string returns at once
Call(w, dotted) ==
    /\ workers[w].pc = "idle"
    /\ workers' = [workers EXCEPT ![w] =
                     IF dotted = <<>>
                     THEN WorkerIdle(Some([key |-> dotted, value |-> FALSE,
                                           hit |-> FALSE]))
                     ELSE [pc |-> "get", key |-> dotted, value |-> FALSE,
                           ret |-> None]]
    /\ UNCHANGED cache
    /\ WorkerFrame

\* self.cache.get(dotted)
Get(w) ==
    /\ workers[w].pc = "get"
    /\ workers' = [workers EXCEPT ![w] =
                     IF workers[w].key \in DOMAIN cache
                     THEN WorkerIdle(Some([key |-> workers[w].key,
                                           value |-> cache[workers[w].key],
                                           hit |-> TRUE]))
                     ELSE [workers[w] EXCEPT !.pc = "resolve"]]
    /\ UNCHANGED cache
    /\ WorkerFrame

\* exists_in_root, then module_exists_under_root
Resolve(w) ==
    /\ workers[w].pc = "resolve"
    /\ workers' = [workers EXCEPT ![w] =
                     [workers[w] EXCEPT !.pc = "insert",
                                        !.value = MissValue(Self, files, workers[w].key)]]
    /\ UNCHANGED cache
    /\ WorkerFrame

\* self.cache.insert(dotted, is_local), and the return
Insert(w) ==
    /\ workers[w].pc = "insert"
    /\ cache' = CacheInsert(cache, workers[w].key, workers[w].value)
    /\ workers' = [workers EXCEPT ![w] =
                     WorkerIdle(Some([key |-> workers[w].key,
                                      value |-> workers[w].value,
                                      hit |-> FALSE]))]
    /\ WorkerFrame

WorkersNext ==
    \/ \E w \in Workers, dotted \in WorkerKeys : Call(w, dotted)
    \/ \E w \in Workers : Get(w)
    \/ \E w \in Workers : Resolve(w)
    \/ \E w \in Workers : Insert(w)

SpecWorkers == WorkersInit /\ [][WorkersNext]_vars

\* C16: under any interleaving of the workers' calls, every entry of the
\* shared cache is a whole boolean, an entry once present keeps its value
\* through every later write, and every call that returns for a non-empty
\* key returns the value of that key's entry.
C16_EntriesWriteOnce ==
    [][/\ \A d \in DOMAIN cache : d \in DOMAIN cache' /\ cache'[d] = cache[d]
       /\ \A d \in DOMAIN cache' : cache'[d] \in BOOLEAN
       /\ \A w \in Workers :
            (IsSome(workers'[w].ret) /\ Unwrap(workers'[w].ret).key # <<>>)
               => /\ Unwrap(workers'[w].ret).key \in DOMAIN cache'
                  /\ cache'[Unwrap(workers'[w].ret).key]
                       = Unwrap(workers'[w].ret).value]_vars

\* C16 witness: both workers missed the same key, both computed and wrote
\* it, and both returned that it is local
C16_Witness ==
    /\ \A w \in Workers :
          /\ IsSome(workers[w].ret)
          /\ Unwrap(workers[w].ret).key = <<"util">>
          /\ ~Unwrap(workers[w].ret).hit
          /\ Unwrap(workers[w].ret).value
    /\ DOMAIN cache = {<<"util">>, <<"app", ".", "util">>}

(***************************************************************************)
(* SpecCollect: collect_imports_from_stmt applied to bounded statements of *)
(* bounded current modules, one resolver over a fixed file tree            *)
(***************************************************************************)
CollectFiles ==
    {file_path(Mod2("app", "repo")), file_path(Mod2("app", "util")),
     file_path(Mod3("app", "api", "repo")), InitFile(Mod1("app"))}

CollectCurrents == {Mod3("app", "api", "x"), Mod2("app", "x")}

CollectStmts ==
    {ImportStmt(<<(<<"app", ".", "repo">>)>>, 0),
     ImportStmt(<<(<<"os">>), (<<"app", ".", "repo">>)>>, 0),
     ImportStmt(<<(<<"app", ".", "repo">>), (<<"app", ".", "util">>)>>, 0),
     ImportStmt(<<(<<"repo">>)>>, 0),
     ImportFromStmt(Some(<<"app">>), <<(<<"repo">>), (<<"util">>)>>, Some(0), 0),
     ImportFromStmt(Some(<<"app">>), <<(<<"os">>)>>, Some(0), 0),
     ImportFromStmt(Some(<<"api">>), <<(<<"repo">>)>>, Some(1), 0),
     ImportFromStmt(None, <<(<<"repo">>)>>, Some(1), 0),
     ImportFromStmt(None, <<(<<"repo">>)>>, Some(2), 0),
     [kind |-> "Other", module |-> None, names |-> <<>>, level |-> None,
      start |-> 0]}

CollectInit ==
    /\ files \in SUBSET CollectFiles
    /\ \E cfg \in ResolverConfigs : root_dir = cfg[1] /\ root_module = cfg[2]
    /\ cache = [d \in {} |-> TRUE]
    /\ resolved = None
    /\ local = None
    /\ classification = None
    /\ collected = None
    /\ workers = <<>>
    /\ RuleIdle
    /\ ProcIdle
    /\ WalkIdle
    /\ LinesIdle
    /\ PathIdle

Pushed(stmt, current, r) ==
    /\ collected' = Some([stmt |-> stmt, current_module |-> current,
                          out |-> r.out])
    /\ cache' = r.cache

\* one statement of a one-line file is collected
Collect(stmt, current) ==
    /\ Pushed(stmt, current,
              collect_imports_from_stmt(stmt, current, Self, files,
                                        build_line_offsets(<<"c">>)))
    /\ UNCHANGED <<root_dir, root_module, files, resolved, local,
                   classification, workers>>
    /\ UNCHANGED ruleVars
    /\ UNCHANGED procVars
    /\ UNCHANGED walkVars
    /\ UNCHANGED lineVars
    /\ UNCHANGED pathVars

CollectStmtNext ==
    \E stmt \in CollectStmts, current \in CollectCurrents : Collect(stmt, current)

SpecCollect == CollectInit /\ [][CollectStmtNext]_vars

\* what resolve_import answers on the file tree, without the memo
ResolvedPath(current, spec) ==
    resolve_import(NewResolver(root_dir, root_module), files, current, spec).path

\* the edge to a target when the target is local, else nothing
EdgeIfLocal(current, target, line) ==
    IF TreeHas(to_dotted(target)) /\ target # <<>>
    THEN <<[from_module |-> current, target_module |-> target,
            import_line |-> line]>>
    ELSE <<>>

RECURSIVE EdgesOfNames(_, _, _, _)
\* one edge for each name from k on whose resolved path is local
EdgesOfNames(names, k, current, line) ==
    IF k > Len(names) THEN <<>>
    ELSE EdgeIfLocal(current, ResolvedPath(current, names[k]), line)
         \o EdgesOfNames(names, k + 1, current, line)

PreferredTarget(current, module_name, first) ==
    IF TreeHas(to_dotted(ResolvedPath(current, module_name \o <<DOT>> \o first)))
    THEN ResolvedPath(current, module_name \o <<DOT>> \o first)
    ELSE ResolvedPath(current, module_name)

IsFromModule(c) ==
    /\ c.stmt.kind = "ImportFrom"
    /\ IsSome(c.stmt.module)
    /\ Unwrap(c.stmt.module) # <<>>
    /\ c.stmt.names # <<>>

\* C19: for `from M import Y, ...` with non-empty M the statement yields the
\* edge from the current module to resolve_import(M.Y) when that path is
\* local, else to resolve_import(M), and yields it only when the chosen
\* target is local.
C19_SubmodulePreference ==
    (IsSome(collected) /\ IsFromModule(Unwrap(collected))) =>
        LET c == Unwrap(collected)
        IN  c.out = EdgeIfLocal(c.current_module,
                                PreferredTarget(c.current_module,
                                                Unwrap(c.stmt.module),
                                                c.stmt.names[1]),
                                1)

\* C19 witness: `from app import repo, util` in app.api.x gave the edge to
\* app.repo
C19_Witness ==
    /\ IsSome(collected)
    /\ IsFromModule(Unwrap(collected))
    /\ Unwrap(Unwrap(collected).stmt.module) = <<"app">>
    /\ Unwrap(collected).stmt.names[1] = <<"repo">>
    /\ Unwrap(collected).current_module = Mod3("app", "api", "x")
    /\ Len(Unwrap(collected).out) = 1
    /\ Unwrap(collected).out[1].target_module = Mod2("app", "repo")
    /\ Unwrap(collected).out[1].from_module = Mod3("app", "api", "x")

IsPureRelative(c) ==
    /\ c.stmt.kind = "ImportFrom"
    /\ ~IsSome(c.stmt.module)
    /\ IsSome(c.stmt.level)
    /\ Unwrap(c.stmt.level) >= 1
    /\ c.stmt.names # <<>>

\* C20: for `from <k dots> import X` with no module part and k >= 1 the
\* target is the current module without its last min(k, len) segments,
\* followed by X, and the edge to it is yielded when it is local.
C20_PureRelativeLevel ==
    (IsSome(collected) /\ IsPureRelative(Unwrap(collected))) =>
        LET c == Unwrap(collected)
            k == Unwrap(c.stmt.level)
            cur == c.current_module
        IN  c.out = EdgeIfLocal(cur,
                                SubSeq(cur, 1, Len(cur) - MinOf(k, Len(cur)))
                                    \o DotParts(c.stmt.names[1]),
                                1)


(***************************************************************************)
(* SpecWalk: run_check_imports (walker.rs) over a file tree.  The units of *)
(* work of a scan root - a directory to list, a file to process - are      *)
(* taken in any order: fs::read_dir fixes none, and a pool of workers      *)
(* sharing the root's resolver takes the per-file units in any order too.  *)
(* The source modules are taken one after the other, each with a resolver  *)
(* of its own.                                                             *)
(***************************************************************************)
PYCACHE == <<"__pycache__">>
PYPROJECT == <<"pyproject", ".", "toml">>

\* Path::is_dir; the empty PathBuf names no directory
PathIsDir(fs, path) == path # <<>> /\ is_dir(fs, path)

\* Path::parent of a path that has a last component
parent(path) == SubSeq(path, 1, Len(path) - 1)

\* fs::read_dir(dir): the file names of the entries, None for Err
read_dir(fs, dir) ==
    IF ~PathIsDir(fs, dir) THEN None
    ELSE Some({f[Len(dir) + 1] : f \in {g \in fs : IsProperPrefix(dir, g)}})

RECURSIVE find_project_root_from(_, _, _)
\* the loop of find_project_root, at `cur`
find_project_root_from(fs, start, cur) ==
    IF exists(fs, Append(cur, PYPROJECT)) THEN cur
    ELSE IF cur # <<>> THEN find_project_root_from(fs, start, parent(cur))
    ELSE start

find_project_root(fs, start) == find_project_root_from(fs, start, start)

\* the cache file of a module, as (project root, module)
cache_file_path(self, fs, module_path) ==
    <<find_project_root(fs, self.root_dir), module_path>>

\* what the cache file holds, None when there is none
CacheFile(cdir, key) == IF key \in DOMAIN cdir THEN cdir[key] ELSE None

\* the cache directory with one file rewritten, or left alone
CacheWrite(cdir, key, ent) ==
    IF ent = CacheFile(cdir, key) THEN cdir
    ELSE [k \in DOMAIN cdir \cup {key} |-> IF k = key THEN ent ELSE cdir[k]]

DirItem(module) == [kind |-> "dir", module |-> module, path |-> to_dir_pathbuf(module)]

FileItem(module, path) == [kind |-> "file", module |-> module, path |-> path]

\* a walk that descends into every directory
IsPycache_Never(fs, path, file_name) == FALSE

\* "Skip Python cache directories explicitly"
IsPycache(fs, path, file_name) == PathIsDir(fs, path) /\ file_name = PYCACHE

\* the body of the loop of walk_dirs for one entry: the unit of work it
\* starts, if any
WalkEntry(fs, dir, file_name, path) ==
    IF IsPycache(fs, path, file_name) THEN {}
    ELSE IF PathIsDir(fs, path) THEN {DirItem(append(dir, file_name))}
    ELSE IF ~is_file(fs, path) THEN {}
    ELSE IF extension(file_name) # Some(PY) THEN {}
    ELSE {FileItem(append(dir, file_stem(path)), path)}

\* walk_dirs(dir) without the calls it makes for its entries
walk_dirs(fs, dir) ==
    IF read_dir(fs, to_dir_pathbuf(dir)) = None THEN {}
    ELSE UNION {WalkEntry(fs, dir, n, Append(to_dir_pathbuf(dir), n)) :
                    n \in Unwrap(read_dir(fs, to_dir_pathbuf(dir)))}


\* the tree walked: app/api.py and app/repo.py always, the others or not
WalkApi == file_path(Mod2("app", "api"))
WalkRepo == file_path(Mod2("app", "repo"))
WalkPkgApi == file_path(Mod3("app", "pkg", "api"))
WalkPkgPy == file_path(Mod2("app", "pkg"))
WalkCached == <<Seg("app"), PYCACHE, <<"api", ".", "py">>>>
WalkStub == <<Seg("app"), <<"api", ".", "pyi">>>>

WalkBase == {WalkApi, WalkRepo}

WalkExtras == {WalkPkgApi, WalkPkgPy, WalkCached, WalkStub, <<PYPROJECT>>}

\* fs::read_to_string: app/pkg.py holds `import os` and `from app import
\* repo`, app/repo.py nothing, every other source file `import app.repo`
FileContent(path) ==
    IF path = WalkRepo THEN 1 ELSE IF path = WalkPkgPy THEN 3 ELSE 2

\* ProjectConfig.source_modules
WalkConfigs ==
    {<<>>, <<Mod1("app")>>, <<Mod1("app"), Mod1("app")>>,
     <<Mod1("app"), Mod2("app", "pkg")>>, <<Mod2("app", "pkg")>>,
     <<Mod2("app", "api")>>}

WalkInit ==
    /\ source_folder \in {Mod1("app"), Mod1("lib")}
    /\ order = <<Seg("api"), Seg("repo")>>
    /\ import = None
    /\ outcome = "none"
    /\ root_dir = <<>>
    /\ root_module = None
    /\ cache = [d \in {} |-> TRUE]
    /\ files \in {WalkBase \cup t : t \in SUBSET WalkExtras}
    /\ resolved = None
    /\ local = None
    /\ ProcIdle
    /\ CallsIdle
    /\ PathIdle
    /\ LinesIdle
    /\ source_modules \in WalkConfigs
    /\ run_config \in [no_cache : BOOLEAN]
    /\ walk_pc = "modules"
    /\ root_index = 0
    /\ walked_any = FALSE
    /\ pending = {}
    /\ handled = {}
    /\ cache_dir = [k \in {} |-> None]
    /\ result = <<>>

WalkFrame ==
    /\ UNCHANGED <<files, resolved, local>>
    /\ UNCHANGED ruleVars
    /\ UNCHANGED procVars
    /\ UNCHANGED <<classification, collected, workers>>
    /\ UNCHANGED pathVars
    /\ UNCHANGED lineVars
    /\ UNCHANGED <<source_modules, run_config>>

\* ImportResolver::new(..) for a scan root, then the first unit of the root
StartRoot(self, first) ==
    /\ root_dir' = self.root_dir
    /\ root_module' = self.root_module
    /\ cache' = self.cache
    /\ pending' = {first}
    /\ walked_any' = TRUE

\* one iteration of `for module_path in project_config.source_modules`, up
\* to its call of walk_dirs or process_file
SourceModule(module_path) ==
    /\ walk_pc = "modules"
    /\ pending = {}
    /\ root_index < Len(source_modules)
    /\ module_path = source_modules[root_index + 1]
    /\ IF PathIsDir(files, to_dir_pathbuf(module_path))
       THEN StartRoot(NewResolver(to_dir_pathbuf(module_path), Some(module_path[1])),
                      DirItem(module_path))
       ELSE IF IsSome(split_last(module_path))
       THEN StartRoot(NewResolver(parent(file_path(module_path)), Some(module_path[1])),
                      FileItem(module_path, file_path(module_path)))
       ELSE UNCHANGED <<root_dir, root_module, cache, pending, walked_any>>
    /\ root_index' = root_index + 1
    /\ UNCHANGED <<walk_pc, handled, cache_dir, result>>
    /\ WalkFrame

\* walk_dirs lists one directory
ReadDir(item) ==
    /\ item \in pending
    /\ item.kind = "dir"
    /\ pending' = (pending \ {item}) \cup walk_dirs(files, item.module)
    /\ UNCHANGED <<root_dir, root_module, cache, walk_pc, root_index,
                   walked_any, handled, cache_dir, result>>
    /\ WalkFrame

\* what a process_file call that did r leaves
Processed(item, key, r) ==
    /\ pending' = pending \ {item}
    /\ cache' = r.cache
    /\ cache_dir' = CacheWrite(cache_dir, key, r.entry)
    /\ handled' = handled \cup
                    {[root |-> root_index, module |-> item.module,
                      path |-> item.path, read |-> r.read, tried |-> r.tried,
                      loaded |-> IsSome(r.loaded), parsed |-> r.parsed,
                      issues |-> r.issues]}
    /\ result' = result \o r.issues

\* process_file on one file: the rules are checked and the issues pushed
ProcessFile(item) ==
    /\ item \in pending
    /\ item.kind = "file"
    /\ Processed(item, cache_file_path(Self, files, item.module),
                 process_file_with_rules(
                     item.module, run_config.no_cache, Self, source_folder,
                     order, files, FileContent(file_path(item.module)),
                     CacheFile(cache_dir,
                               cache_file_path(Self, files, item.module))))
    /\ UNCHANGED <<root_dir, root_module, walk_pc, root_index, walked_any>>
    /\ WalkFrame

\* `if !walked_any`: a resolver for the cwd and walk_dirs on the empty path
WalkCwd ==
    /\ walk_pc = "modules"
    /\ pending = {}
    /\ root_index = Len(source_modules)
    /\ ~walked_any
    /\ root_dir' = <<>>
    /\ root_module' = None
    /\ cache' = [d \in {} |-> TRUE]
    /\ pending' = {DirItem(<<>>)}
    /\ walk_pc' = "cwd"
    /\ UNCHANGED <<root_index, walked_any, handled, cache_dir, result>>
    /\ WalkFrame

\* run_check_imports returns `result`
Return ==
    /\ pending = {}
    /\ \/ walk_pc = "cwd"
       \/ walk_pc = "modules" /\ root_index = Len(source_modules) /\ walked_any
    /\ walk_pc' = "done"
    /\ UNCHANGED <<root_dir, root_module, cache, root_index, walked_any,
                   pending, handled, cache_dir, result>>
    /\ WalkFrame

WalkNext ==
    \/ \E module_path \in UNION {{c[i] : i \in 1..Len(c)} : c \in WalkConfigs} :
          SourceModule(module_path)
    \/ \E item \in pending : ReadDir(item)
    \/ \E item \in pending : ProcessFile(item)
    \/ WalkCwd
    \/ Return

SpecWalk == WalkInit /\ [][WalkNext]_vars


(***************************************************************************)
(* Claims about the walk, under SpecWalk                                   *)
(***************************************************************************)
\* the configured rule can give a verdict for a file: the test check_line
\* makes before it looks at the edge
RuleConcerns(path) == source_folder \in Windows(path, Len(source_folder))

\* C21: a file that no rule of the rule set concerns is skipped by the walk:
\* it is not read, hashed or parsed, and its cache file is neither looked up
\* nor written.
C21_ConcernPruning ==
    \A h \in handled :
        ~RuleConcerns(h.path) => ~h.read /\ ~h.tried /\ ~h.parsed


RECURSIVE Count(_, _)
\* how many times x occurs in the sequence s
Count(s, x) ==
    IF s = <<>> THEN 0
    ELSE (IF s[1] = x THEN 1 ELSE 0) + Count(SubSeq(s, 2, Len(s)), x)

\* the issues of the failing checks of the run: every file handed to file
\* processing is one file of the tree, whichever roots reached it
FailedChecks == UNION {IssueSet(h.issues) : h \in handled}

\* C22: when run_check_imports returns, the issues are those of the failing
\* checks, each exactly once, whatever source_modules lists.
C22_ExactlyOnce ==
    walk_pc = "done" =>
        /\ IssueSet(result) = FailedChecks
        /\ \A i \in FailedChecks : Count(result, i) = 1


\* the issues process_file gives for a file when the root's resolver is as
\* ImportResolver::new left it, nothing memoized yet
IssuesAlone(item) ==
    process_file_with_rules(
        item.module, run_config.no_cache, NewResolver(root_dir, root_module),
        source_folder, order, files, FileContent(file_path(item.module)),
        CacheFile(cache_dir, cache_file_path(Self, files, item.module))).issues

\* C23: the issues a per-file unit adds to the result are those it gives
\* alone, whatever the units taken before it left in the shared resolver;
\* so every order of the units of a root gives the same set of issues.
C23_WorkerCountIndependence ==
    [][\A item \in pending :
          (item.kind = "file" /\ pending' = pending \ {item}
           /\ handled' # handled)
          => result' = result \o IssuesAlone(item)]_vars

\* C23 witness: a second file of a root was processed, with names already
\* memoized by the first, and the run reported an issue.
C23_Witness ==
    /\ \E g, h \in handled : g.root = h.root /\ g.module # h.module
    /\ DOMAIN cache # {}
    /\ result # <<>>


\* the file a walk handed to file processing, as opposed to the single
\* file of a source module that names no directory
FromWalk(i) == i.module # source_modules[i.root]

\* C24: no unit of work lies in a `__pycache__` directory, and a file the
\* walk hands to file processing is a file with extension `py` whose module
\* path is the module path of its directory plus its file stem.
C24_WalkFiltering ==
    /\ \A i \in pending : \A k \in 1..Len(i.path) : i.path[k] # PYCACHE
    /\ \A h \in handled :
          /\ \A k \in 1..Len(h.path) : h.path[k] # PYCACHE
          /\ FromWalk(h) =>
                /\ is_file(files, h.path)
                /\ extension(h.path[Len(h.path)]) = Some(PY)
                /\ h.module = append(SubSeq(h.module, 1, Len(h.module) - 1),
                                     file_stem(h.path))
                /\ to_dir_pathbuf(SubSeq(h.module, 1, Len(h.module) - 1))
                     = parent(h.path)

\* C24 witness: a tree with a `__pycache__` directory holding a .py file and
\* with a .pyi file was walked to the end, and files were processed.
C24_Witness ==
    /\ walk_pc = "done"
    /\ WalkCached \in files
    /\ WalkStub \in files
    /\ \E h \in handled : FromWalk(h) /\ h.read


\* a resolver has been built for a scan root
ResolverBuilt == walked_any \/ walk_pc = "cwd"

\* C25: the root_module of the resolver built for a scan root is none or the
\* dotted name its root_dir stands for, so that <root_module>.x is looked
\* up as <root_dir>/x.py.
C25_ResolverScopeConsistent ==
    ResolverBuilt =>
        \/ root_module = None
        \/ to_dir_pathbuf(from_dotted(Unwrap(root_module))) = root_dir


\* the file lies under the scan root a source module names
UnderRoot(f, module_path) ==
    IF PathIsDir(files, to_dir_pathbuf(module_path))
    THEN IsProperPrefix(to_dir_pathbuf(module_path), f)
    ELSE f = file_path(module_path)

\* the .py files under the scan roots that are in no `__pycache__` directory
SourceFiles ==
    {f \in files :
        /\ extension(f[Len(f)]) = Some(PY)
        /\ \A k \in 1..Len(f) : f[k] # PYCACHE
        /\ \E i \in 1..Len(source_modules) : UnderRoot(f, source_modules[i])}

\* C26: when the run ends, every .py file under a scan root and outside
\* `__pycache__` has been handed to file processing, read, and had its edges
\* extracted or loaded from the cache - a foo.py beside a directory foo/
\* included.
C26_EverySourceFileProcessed ==
    walk_pc = "done" =>
        \A f \in SourceFiles :
            \E h \in handled : h.path = f /\ h.read /\ (h.parsed \/ h.loaded)


(***************************************************************************)
(* SpecLines: build_line_offsets and offset_to_line (imports/collection.rs) *)
(* on every source text of up to MaxBytes bytes, "n" a newline byte and "c" *)
(* any other, and every byte offset within it                              *)
(***************************************************************************)
MaxBytes == 5

RECURSIVE Texts(_)
\* the source texts of n bytes
Texts(n) ==
    IF n = 0 THEN {<<>>}
    ELSE {Append(t, b) : t \in Texts(n - 1), b \in {"n", "c"}}

LinesInit ==
    /\ src_text \in UNION {Texts(n) : n \in 0..MaxBytes}
    /\ src_offset = 0
    /\ src_line = None
    /\ RuleIdle
    /\ ResolverIdle
    /\ ProcIdle
    /\ CallsIdle
    /\ PathIdle
    /\ WalkIdle

\* let line_offsets = build_line_offsets(source); offset_to_line(start, ..)
OffsetToLine(offset) ==
    /\ offset \in 0..Len(src_text)
    /\ src_offset' = offset
    /\ src_line' = Some(offset_to_line(offset, build_line_offsets(src_text)))
    /\ UNCHANGED src_text
    /\ UNCHANGED ruleVars
    /\ UNCHANGED resolverVars
    /\ UNCHANGED procVars
    /\ UNCHANGED <<classification, collected, workers>>
    /\ UNCHANGED pathVars
    /\ UNCHANGED walkVars

LinesNext == \E offset \in 0..MaxBytes : OffsetToLine(offset)

SpecLines == LinesInit /\ [][LinesNext]_vars

\* 1 + source[..start].bytes().filter(|&b| b == b'\n').count()
LinearLine(source, start) ==
    1 + Cardinality({i \in 1..start : source[i] = "n"})

\* C27: offset_to_line over the table of build_line_offsets gives the
\* 1-based line of the offset, 1 + the number of newline bytes before it,
\* which is what the linear scan counts; so the line is at least 1.
C27_LineNumbers ==
    IsSome(src_line) =>
        /\ Unwrap(src_line) = LinearLine(src_text, src_offset)
        /\ Unwrap(src_line) >= 1

\* C27 witness: an offset that starts a line after the first and one in the
\* middle of a later line were looked up.
C27_Witness ==
    /\ IsSome(src_line)
    /\ Unwrap(src_line) >= 2
    /\ src_offset > 1
    /\ src_text[src_offset] = "n"


HasRootPrefix(dotted) ==
    /\ IsSome(root_module)
    /\ \/ dotted = Unwrap(root_module)
       \/ StrStartsWith(dotted, Unwrap(root_module) \o <<DOT>>)

\* C29: for a non-empty dotted name, exists_in_root implies
\* module_exists_under_root; the verdict of is_local_dotted is that of
\* module_exists_under_root; and a name without the root-module prefix is
\* local whenever <root_dir>/<name>.py or <root_dir>/<name>/__init__.py
\* exists.
C29_ExistsInRootImpliesUnderRoot ==
    (IsSome(local) /\ Unwrap(local).dotted # <<>>) =>
        /\ exists_in_root(Self, files, Unwrap(local).dotted)
              => module_exists_under_root(Self, files, Unwrap(local).dotted)
        /\ Unwrap(local).value
              = module_exists_under_root(Self, files, Unwrap(local).dotted)
        /\ (/\ ~HasRootPrefix(Unwrap(local).dotted)
            /\ FileOrPackageExists(files, root_dir,
                                   Replace(Unwrap(local).dotted, DOT, SLASH)))
              => Unwrap(local).value

\* C29 witness: under a resolver with a root module, a name with the prefix
\* that exists in the root was asked for.
C29_Witness ==
    /\ IsSome(local)
    /\ IsSome(root_module)
    /\ HasRootPrefix(Unwrap(local).dotted)
    /\ Unwrap(local).dotted # Unwrap(root_module)
    /\ exists_in_root(Self, files, Unwrap(local).dotted)


(***************************************************************************)
(* A further claim about import extraction, under SpecCollect              *)
(***************************************************************************)
\* a from-import with a module part and a level of at least 1
IsLevelledFromModule(c) ==
    /\ c.stmt.kind = "ImportFrom"
    /\ IsSome(c.stmt.module)
    /\ Unwrap(c.stmt.module) # <<>>
    /\ IsSome(c.stmt.level)
    /\ Unwrap(c.stmt.level) >= 1

\* what the same statement written without its dots yields in the same
\* module on the same tree
WithoutLevel(c) ==
    collect_imports_from_stmt([c.stmt EXCEPT !.level = Some(0)],
                              c.current_module,
                              NewResolver(root_dir, root_module), files,
                              build_line_offsets(<<"c">>)).out

\* C30: for `from <dots>M import Y` the level is ignored: the base specifier
\* has no leading dot and the edges are those of `from M import Y`.
C30_LevelIgnoredWithModule ==
    (IsSome(collected) /\ IsLevelledFromModule(Unwrap(collected))) =>
        /\ Unwrap(collected).out = WithoutLevel(Unwrap(collected))
        /\ Unwrap(BaseSpec(Unwrap(collected).stmt,
                           Unwrap(collected).current_module, Self,
                           files).base)[1] # DOT

\* C30 witness: `from .api import repo` in app.x yielded an edge, and not
\* the one to the module the relative form names.
C30_Witness ==
    /\ IsSome(collected)
    /\ IsLevelledFromModule(Unwrap(collected))
    /\ Unwrap(collected).out # <<>>
    /\ Unwrap(collected).out[1].target_module
         # from_import(Unwrap(collected).current_module,
                       <<DOT>> \o Unwrap(Unwrap(collected).stmt.module)
                           \o <<DOT>> \o Unwrap(collected).stmt.names[1])

====
